---- MODULE Spec2Model ----
(***************************************************************************)
(* npm-needs-publish: the orchestrator needsPublishImpl and the            *)
(* comparators it calls (file-content, package-json, dependency and        *)
(* version-specifier), as a state machine over one invocation.             *)
(*                                                                         *)
(* Strings that the code inspects character by character (archive paths)   *)
(* are sequences of one-character strings; strings it only compares are    *)
(* TLA+ strings.  JSON values are tagged records.                          *)
(***************************************************************************)
EXTENDS Integers, Sequences, FiniteSets, TLC

VARIABLES
  pc,              \* position of the invocation in needsPublishImpl
  api,             \* "promise" (needsPublish) or "callback" (needsPublishCb)
  cbThrows,        \* whether the user's callback throws when it is invoked
  localPkg,        \* the local package.json (options.package or cwd)
  options,         \* NeedsPublishOptions
  latestVersion,   \* packument['dist-tags'].latest once fetched
  registryTarball, \* Buffer fetched from the registry
  localTarball,    \* Buffer packed from cwd
  fileComparison,  \* result of comparePackageFiles
  localTarballPkg, \* package.json extracted from the local tarball
  steps,           \* the steps of the algorithm run so far, in order
  extracted,       \* which tarballs have been extracted (extractTarball calls)
  failure,         \* the failure of a registry or packing operation, if any
  calls,           \* the invocations of the callback, in order
  uncaught,        \* an exception escaped the invocation (thrown to the caller
                   \* or an unhandled rejection)
  input,           \* the arguments of a direct call of an exported comparator
  output           \* the comparator called and what it returned

vars == <<pc, api, cbThrows, localPkg, options, latestVersion, registryTarball,
          localTarball, fileComparison, localTarballPkg, steps, extracted,
          failure, calls, uncaught, input, output>>

----------------------------------------------------------------------------
(* Bounds of the model *)

\* most entries in one archive
MaxFiles == 2

None == [t |-> "undefined"]

----------------------------------------------------------------------------
(* Character-level strings: String.prototype.indexOf *)

\* does needle occur in s at 0-based position i
OccursAt(s, needle, i) ==
  /\ i >= 0
  /\ i + Len(needle) <= Len(s)
  /\ \A k \in 1..Len(needle) : s[i + k] = needle[k]

\* s.indexOf(needle): the first 0-based position of needle in s, or -1
indexOf(s, needle) ==
  IF \E i \in 0..Len(s) : OccursAt(s, needle, i)
  THEN CHOOSE i \in 0..Len(s) :
         /\ OccursAt(s, needle, i)
         /\ \A j \in 0..(i - 1) : ~OccursAt(s, needle, j)
  ELSE -1

PackageDir == <<"p","a","c","k","a","g","e">>
SlashPackageJson == <<"/","p","a","c","k","a","g","e",".","j","s","o","n">>

\* 'package/package.json', the manifest at the root of a packed package
RootManifestPath == PackageDir \o SlashPackageJson
\* 'package/index.js', a code file (16 characters)
IndexPath == PackageDir \o <<"/","i","n","d","e","x",".","j","s">>
\* 'package/a.js', a code file whose path has 12 characters
ShortPath == PackageDir \o <<"/","a",".","j","s">>

Paths == {RootManifestPath, IndexPath, ShortPath}

----------------------------------------------------------------------------
(* Manifests (package.json documents) and file contents *)

\* JSON values: strings, arrays and objects; an object keeps its keys in
\* insertion order, as Object.keys reports them
Str(s) == [t |-> "string", s |-> s]
Arr(a) == [t |-> "array", a |-> a]
Obj(kvs) == [t |-> "object", o |-> kvs]
KV(k, v) == [k |-> k, v |-> v]
Bool(b) == [t |-> "boolean", b |-> b]

\* a package name: '@scope/base' when scope is not empty, else 'base'
PkgName(scope, base) == [scope |-> scope, base |-> base]

Deps(spec) == Obj(<<KV("lodash", Str(spec))>>)

BaseManifest ==
  [name |-> Str(PkgName("", "p")), version |-> Str("1.0.0"),
   main |-> Str("index.js"), description |-> Str("d1"),
   dependencies |-> Deps("^4.17.21")]

\* the manifests that occur inside the archives
Manifests ==
  { BaseManifest,
    [BaseManifest EXCEPT !.description = Str("d2")],
    [BaseManifest EXCEPT !.dependencies = Deps("^4.17.0")],
    [BaseManifest EXCEPT !.main = Str("lib.js"),
                         !.dependencies = Deps("^5.0.0")] }

Json(m) == [t |-> "json", v |-> m]
Blob(b) == [t |-> "blob", b |-> b]

\* the contents a file at path p can have: the root manifest holds a JSON
\* document, code files hold bytes that are no JSON
ContentsOf(p) ==
  IF p = RootManifestPath THEN {Json(m) : m \in Manifests}
  ELSE {Blob("b1"), Blob("b2")}

Entries == UNION {{[path |-> p, content |-> c] : c \in ContentsOf(p)} : p \in Paths}

\* the file entries of a tarball in archive order, each path once
EntryLists ==
  UNION {{es \in [1..n -> Entries] :
            \A i, j \in 1..n : i # j => es[i].path # es[j].path} : n \in 0..MaxFiles}

\* a gzipped tarball: its file entries and the container metadata (header
\* fields such as mtime) that the bytes also carry
Archives(metas) == {[meta |-> m, entries |-> es] : m \in metas, es \in EntryLists}

----------------------------------------------------------------------------
(* comparators/file-content.ts *)

\* sha512 digest of the buffer; SHA-512 is taken to be collision free, so the
\* digest stands for the bytes: container metadata and entries
hashBuffer(buffer) == <<"sha512", buffer.meta, buffer.entries>>

\* files of a tarball as path -> content, keys in archive order
extractTarball(tarball) == tarball.entries

Keys(files) == [i \in 1..Len(files) |-> files[i].path]
HasKey(files, p) == \E i \in 1..Len(files) : files[i].path = p
Lookup(files, p) == (CHOOSE i \in 1..Len(files) : files[i].path = p)

buffersEqual(a, b) == a = b

\* the path test of comparePackageFiles, isOnlyPackageJsonChange and
\* extractPackageJson
isPackageJson(filePath) ==
  \/ filePath = RootManifestPath
  \/ indexOf(filePath, SlashPackageJson) = Len(filePath) - 13

\* Object.keys(allPaths): local keys, then registry keys not seen before
AllPathKeys(localFiles, registryFiles) ==
  Keys(localFiles) \o
    SelectSeq(Keys(registryFiles), LAMBDA p : ~HasKey(localFiles, p))

FileAction(filePath, localFiles, registryFiles) ==
  IF ~HasKey(registryFiles, filePath) THEN "added"
  ELSE IF ~HasKey(localFiles, filePath) THEN "removed"
  ELSE IF ~buffersEqual(localFiles[Lookup(localFiles, filePath)].content,
                        registryFiles[Lookup(registryFiles, filePath)].content)
       THEN "modified"
  ELSE "same"

FileChanges(localFiles, registryFiles) ==
  LET pathKeys == AllPathKeys(localFiles, registryFiles)
      all == [i \in 1..Len(pathKeys) |->
                [path |-> pathKeys[i],
                 action |-> FileAction(pathKeys[i], localFiles, registryFiles)]]
  IN SelectSeq(all, LAMBDA c : c.action # "same")

\* the flag onlyPackageJsonDiffers after the loop over all paths
OnlyPackageJsonDiffers(changes) ==
  \A i \in 1..Len(changes) : isPackageJson(changes[i].path)

comparePackageFiles(localTb, registryTb) ==
  IF hashBuffer(localTb) = hashBuffer(registryTb)
  THEN [identical |-> TRUE, fileChanges |-> <<>>, packageJsonOnly |-> FALSE]
  ELSE LET changes == FileChanges(extractTarball(localTb), extractTarball(registryTb))
       IN [identical |-> Len(changes) = 0,
           fileChanges |-> changes,
           packageJsonOnly |-> OnlyPackageJsonDiffers(changes) /\ Len(changes) > 0]

\* Object.keys(files).find(...): index of the first entry the path test accepts,
\* 0 when there is none
FindPackageJson(files) ==
  IF \E i \in 1..Len(files) : isPackageJson(files[i].path)
  THEN CHOOSE i \in 1..Len(files) :
         /\ isPackageJson(files[i].path)
         /\ \A j \in 1..(i - 1) : ~isPackageJson(files[j].path)
  ELSE 0

MutExtractPackageJson(tarball) ==
  LET files == extractTarball(tarball)
      i == FindPackageJson(files)
  IN IF i = 0 \/ files[i].content.t # "json"
     THEN [ok |-> TRUE, value |-> [name |-> [t |-> "string", s |-> [scope |-> "", base |-> "p"]]]]
     ELSE [ok |-> TRUE, value |-> files[i].content.v]

\* extractPackageJson: the parsed document, or the error it throws
extractPackageJson(tarball) ==
  LET files == extractTarball(tarball)
      i == FindPackageJson(files)
  IN IF i = 0 THEN [ok |-> FALSE, error |-> "package.json not found in tarball"]
     ELSE IF files[i].content.t # "json"
          THEN [ok |-> FALSE, error |-> "SyntaxError"]
     ELSE [ok |-> TRUE, value |-> files[i].content.v]

----------------------------------------------------------------------------
(* comparators/version-specifier.ts *)

\* versions are triples <<major, minor, patch>>
VLt(a, b) ==
  \/ a[1] < b[1]
  \/ a[1] = b[1] /\ a[2] < b[2]
  \/ a[1] = b[1] /\ a[2] = b[2] /\ a[3] < b[3]
VLe(a, b) == a = b \/ VLt(a, b)

\* upper bounds of a comparator set are <<major, minor, patch, k>>: k = 0 for
\* '<M.m.p-0' (below every prerelease of M.m.p) and k = 1 for '<=M.m.p'
BLe(a, b) ==
  \/ VLt(<<a[1], a[2], a[3]>>, <<b[1], b[2], b[3]>>)
  \/ <<a[1], a[2], a[3]>> = <<b[1], b[2], b[3]>> /\ a[4] <= b[4]
\* the release version v seen as an upper bound
UpperOf(v) == <<v[1], v[2], v[3], 1>>

\* the comparator sets that semver.Range builds: '*', '=v', '>=lo <hi' and
\* '>=lo'
AnySet == [kind |-> "any", lo |-> <<0, 0, 0>>, inf |-> TRUE, hi |-> <<0, 0, 0, 0>>]
ExactSet(v) == [kind |-> "exact", lo |-> v, inf |-> FALSE, hi |-> UpperOf(v)]
Interval(lo, hi) == [kind |-> "interval", lo |-> lo, inf |-> FALSE, hi |-> hi]
AtLeast(lo) == [kind |-> "interval", lo |-> lo, inf |-> TRUE, hi |-> <<0, 0, 0, 0>>]
\* ^M.m.p allows changes that keep the left-most non-zero component
CaretSet(v) ==
  Interval(v, IF v[1] > 0 THEN <<v[1] + 1, 0, 0, 0>>
              ELSE IF v[2] > 0 THEN <<0, v[2] + 1, 0, 0>>
              ELSE <<0, 0, v[3] + 1, 0>>)
\* ~M.m.p allows patch changes
TildeSet(v) == Interval(v, <<v[1], v[2] + 1, 0, 0>>)

\* what the parsers report about a specifier text: npa is the type that
\* npm-package-arg resolves it to, op its leading '^' or '~', marks the text
\* tests of detectRangeSubtype that succeed, sets the comparator sets of
\* semver.Range when the text is a range
NoSyntax ==
  [npa |-> "tag", op |-> "", marks |-> {}, ranged |-> FALSE, sets |-> <<>>,
   workspace |-> FALSE, workspaceRange |-> "", url |-> "", committish |-> "",
   gitRange |-> "", aliasName |-> "", sub |-> ""]
RangeSyntax(npa, op, marks, sets) ==
  [NoSyntax EXCEPT !.npa = npa, !.op = op, !.marks = marks, !.ranged = TRUE,
                   !.sets = sets]
CaretSyntax(v) == RangeSyntax("range", "^", {}, <<CaretSet(v)>>)
TildeSyntax(v) == RangeSyntax("range", "~", {}, <<TildeSet(v)>>)
ExactSyntax(v) == RangeSyntax("version", "", {"version"}, <<ExactSet(v)>>)
GitSyntax(url, committish, gitRange) ==
  [NoSyntax EXCEPT !.npa = "git", !.url = url, !.committish = committish,
                   !.gitRange = gitRange]
WorkspaceSyntax(range) ==
  [NoSyntax EXCEPT !.workspace = TRUE, !.workspaceRange = range]
\* npm:<name>@<sub>: subSpec.name and subSpec.rawSpec
AliasSyntax(name, sub) ==
  [NoSyntax EXCEPT !.npa = "alias", !.aliasName = name, !.sub = sub]

GitRepo == "git+https://github.com/user/repo.git"
GitOther == "git+https://github.com/user/other.git"

\* the syntax of the specifier strings that occur in the manifests and in the
\* comparisons, as the parsers of npm-package-arg and semver read them
SpecSyntax(spec) ==
  CASE spec = "0.0.1"    -> ExactSyntax(<<0, 0, 1>>)
    [] spec = "1.2.3"    -> ExactSyntax(<<1, 2, 3>>)
    [] spec = "1.2.5"    -> ExactSyntax(<<1, 2, 5>>)
    [] spec = "^0.0.1"   -> CaretSyntax(<<0, 0, 1>>)
    [] spec = "^0.1.0"   -> CaretSyntax(<<0, 1, 0>>)
    [] spec = "^1.0.0"   -> CaretSyntax(<<1, 0, 0>>)
    [] spec = "^1.2.3"   -> CaretSyntax(<<1, 2, 3>>)
    [] spec = "^1.5.0"   -> CaretSyntax(<<1, 5, 0>>)
    [] spec = "^2.0.0"   -> CaretSyntax(<<2, 0, 0>>)
    [] spec = "^4.17.0"  -> CaretSyntax(<<4, 17, 0>>)
    [] spec = "^4.17.21" -> CaretSyntax(<<4, 17, 21>>)
    [] spec = "^5.0.0"   -> CaretSyntax(<<5, 0, 0>>)
    [] spec = "^1.0.0 || ^2.0.0" ->
         RangeSyntax("range", "^", {"or"},
                     <<CaretSet(<<1, 0, 0>>), CaretSet(<<2, 0, 0>>)>>)
    [] spec = "~4.17.0"  -> TildeSyntax(<<4, 17, 0>>)
    [] spec = "~4.17.5"  -> TildeSyntax(<<4, 17, 5>>)
    [] spec = "~4.18.0"  -> TildeSyntax(<<4, 18, 0>>)
    [] spec = "*"        -> RangeSyntax("range", "", {"x"}, <<AnySet>>)
    [] spec = ""         -> RangeSyntax("range", "", {}, <<AnySet>>)
    [] spec = "1.x"      -> RangeSyntax("range", "", {"x"}, <<CaretSet(<<1, 0, 0>>)>>)
    [] spec = ">=1.0.0"  -> RangeSyntax("range", "", {}, <<AtLeast(<<1, 0, 0>>)>>)
    [] spec = "1.0.0 - 2.0.0" ->
         RangeSyntax("range", "", {"hyphen"},
                     <<Interval(<<1, 0, 0>>, <<2, 0, 0, 1>>)>>)
    [] spec = ">=1.0.0 || >=2.0.0" ->
         RangeSyntax("range", "", {"or"},
                     <<AtLeast(<<1, 0, 0>>), AtLeast(<<2, 0, 0>>)>>)
    [] spec = "latest"   -> NoSyntax
    [] spec = "next"     -> NoSyntax
    [] spec = "file:../local" -> [NoSyntax EXCEPT !.npa = "directory"]
    [] spec = "file:../other" -> [NoSyntax EXCEPT !.npa = "directory"]
    [] spec = "https://example.com/a.tgz" -> [NoSyntax EXCEPT !.npa = "remote"]
    [] spec = "https://example.com/b.tgz" -> [NoSyntax EXCEPT !.npa = "remote"]
    [] spec = "git+https://github.com/user/repo.git" -> GitSyntax(GitRepo, "", "")
    [] spec = "git+https://github.com/user/repo.git#v1.0.0" ->
         GitSyntax(GitRepo, "v1.0.0", "")
    [] spec = "git+https://github.com/user/repo.git#v2.0.0" ->
         GitSyntax(GitRepo, "v2.0.0", "")
    [] spec = "git+https://github.com/user/repo.git#semver:^1.0.0" ->
         GitSyntax(GitRepo, "", "^1.0.0")
    [] spec = "git+https://github.com/user/repo.git#semver:^1.2.3" ->
         GitSyntax(GitRepo, "", "^1.2.3")
    [] spec = "git+https://github.com/user/other.git#v1.0.0" ->
         GitSyntax(GitOther, "v1.0.0", "")
    [] spec = "npm:left@^1.0.0"  -> AliasSyntax("left", "^1.0.0")
    [] spec = "npm:right@^1.2.3" -> AliasSyntax("right", "^1.2.3")
    [] spec = "npm:left@latest"  -> AliasSyntax("left", "latest")
    [] spec = "workspace:*" -> WorkspaceSyntax("*")
    [] spec = "workspace:^" -> WorkspaceSyntax("^")
    [] spec = "workspace:"  -> WorkspaceSyntax("")
    [] OTHER             -> NoSyntax

\* new semver.Range(spec, { loose: true }): its comparator sets, or the
\* constructor throws; range.range is the text of the sets, so two ranges have
\* the same text exactly when they have the same sets
RangeOf(syn) ==
  IF syn.ranged THEN [valid |-> TRUE, sets |-> syn.sets]
  ELSE [valid |-> FALSE, sets |-> <<>>]

SemverRange(spec) == RangeOf(SpecSyntax(spec))

\* the release version v satisfies the comparator set
Satisfies(v, set) ==
  IF set.kind = "any" THEN TRUE
  ELSE IF set.kind = "exact" THEN v = set.lo
  ELSE VLe(set.lo, v) /\ (set.inf \/ BLe(UpperOf(v), set.hi))

\* semver's simpleSubset with includePrerelease: '*' stands for '>=0.0.0-0',
\* an '=v' set is a subset when v satisfies the other set, and no set with
\* bounds is a subset of an '=v' set
SimpleSubset(sub, dom) ==
  IF dom.kind = "any" THEN TRUE
  ELSE IF sub.kind = "any" THEN FALSE
  ELSE IF sub.kind = "exact" THEN Satisfies(sub.lo, dom)
  ELSE IF dom.kind = "exact" THEN FALSE
  ELSE /\ VLe(dom.lo, sub.lo)
       /\ dom.inf \/ (~sub.inf /\ BLe(sub.hi, dom.hi))

SetsIntersect(a, b) ==
  IF a.kind = "any" \/ b.kind = "any" THEN TRUE
  ELSE IF a.kind = "exact" THEN Satisfies(a.lo, b)
  ELSE IF b.kind = "exact" THEN Satisfies(b.lo, a)
  ELSE /\ b.inf \/ BLe(UpperOf(a.lo), b.hi)
       /\ a.inf \/ BLe(UpperOf(b.lo), a.hi)

MutSemverSubsetReversed(a, b) ==
  \A i \in 1..Len(b.sets) : \E j \in 1..Len(a.sets) :
    SimpleSubset(b.sets[i], a.sets[j])

\* semver.subset(a, b): every set of a is a subset of some set of b
SemverSubset(a, b) ==
  \A i \in 1..Len(a.sets) : \E j \in 1..Len(b.sets) :
    SimpleSubset(a.sets[i], b.sets[j])
\* rangeA.intersects(rangeB)
SemverIntersects(a, b) ==
  \E i \in 1..Len(a.sets) : \E j \in 1..Len(b.sets) :
    SetsIntersect(a.sets[i], b.sets[j])

\* the subtype of a range, from the text
detectRangeSubtype(syn) ==
  IF syn.op = "^" THEN "caret"
  ELSE IF syn.op = "~" THEN "tilde"
  ELSE IF "hyphen" \in syn.marks THEN "hyphen"
  ELSE IF "or" \in syn.marks THEN "or"
  ELSE IF "x" \in syn.marks THEN "x-range"
  ELSE IF "version" \in syn.marks THEN "exact"
  ELSE "range"

Parsed(type, raw, normalized) ==
  [type |-> type, raw |-> raw, normalized |-> normalized,
   workspaceRange |-> "", gitInfo |-> None, aliasTarget |-> None]

RECURSIVE parseVersionSpecifier(_)

ParsedFrom(spec, syn) ==
  IF syn.workspace
  THEN [Parsed("workspace", spec, spec) EXCEPT
          !.workspaceRange = IF syn.workspaceRange = "" THEN "*"
                             ELSE syn.workspaceRange]
  ELSE IF spec = "" THEN Parsed("x-range", spec, "*")
  ELSE IF syn.npa = "version" THEN Parsed("exact", spec, spec)
  ELSE IF syn.npa = "range"
       THEN Parsed(detectRangeSubtype(syn), spec, RangeOf(syn).sets)
  ELSE IF syn.npa = "tag" THEN Parsed("tag", spec, spec)
  ELSE IF syn.npa = "git"
       THEN [Parsed("git", spec, spec) EXCEPT
               !.gitInfo = [url |-> syn.url, committish |-> syn.committish,
                            semverRange |-> syn.gitRange]]
  ELSE IF syn.npa = "remote" THEN Parsed("url", spec, spec)
  ELSE IF syn.npa \in {"file", "directory"} THEN Parsed("file", spec, spec)
  ELSE IF syn.npa = "alias"
       THEN [Parsed("alias", spec, spec) EXCEPT
               !.aliasTarget = parseVersionSpecifier(syn.sub)]
  ELSE IF syn.ranged
       THEN Parsed(detectRangeSubtype(syn), spec, RangeOf(syn).sets)
  ELSE Parsed("tag", spec, spec)

parseVersionSpecifier(spec) == ParsedFrom(spec, SpecSyntax(spec))

getSpecCategory(type) ==
  IF type \in {"exact", "caret", "tilde", "range", "x-range", "hyphen", "or"}
  THEN "semver"
  ELSE IF type \in {"git", "file", "tag", "url", "alias", "workspace"} THEN type
  ELSE "unknown"

\* the least of the two versions
VMin(a, b) == IF VLe(a, b) THEN a ELSE b
RECURSIVE MinOfSets(_, _)
MinOfSets(sets, i) ==
  IF i = Len(sets) THEN sets[i].lo
  ELSE VMin(sets[i].lo, MinOfSets(sets, i + 1))

MutMajorMinorOfMinorFirst(range) ==
  IF ~range.valid THEN None
  ELSE [t |-> "bounds", major |-> MinOfSets(range.sets, 1)[2],
        minor |-> MinOfSets(range.sets, 1)[1]]

\* semver.minVersion(range) as {major, minor}
MajorMinorOf(range) ==
  IF ~range.valid THEN None
  ELSE [t |-> "bounds", major |-> MinOfSets(range.sets, 1)[1],
        minor |-> MinOfSets(range.sets, 1)[2]]

extractMajorMinor(spec) == MajorMinorOf(SemverRange(spec))

Comparison(equivalent, relation) == [equivalent |-> equivalent, relation |-> relation]

MutCompareRangesNoCaretRule(opA, opB, rangeA, rangeB) ==
  IF ~rangeA.valid \/ ~rangeB.valid THEN Comparison(FALSE, "incompatible-types")
  ELSE IF rangeA = rangeB THEN Comparison(TRUE, "normalized-equal")
  ELSE IF SemverSubset(rangeA, rangeB) /\ SemverSubset(rangeB, rangeA)
       THEN Comparison(TRUE, "semantically-equal")
  ELSE IF SemverSubset(rangeB, rangeA) THEN Comparison(FALSE, "narrowed")
  ELSE IF SemverSubset(rangeA, rangeB) THEN Comparison(FALSE, "widened")
  ELSE IF SemverIntersects(rangeA, rangeB)
       THEN Comparison(FALSE, "partially-overlapping")
  ELSE Comparison(FALSE, "disjoint")

\* lines 328-397, on the two parsed ranges; opA and opB are the leading
\* characters of the two texts
CompareRanges(opA, opB, rangeA, rangeB) ==
  IF ~rangeA.valid \/ ~rangeB.valid THEN Comparison(FALSE, "incompatible-types")
  ELSE IF rangeA = rangeB THEN Comparison(TRUE, "normalized-equal")
  ELSE IF /\ opA = "^" /\ opB = "^"
          /\ MajorMinorOf(rangeA).major = MajorMinorOf(rangeB).major
       THEN Comparison(TRUE, "same-major-caret")
  ELSE IF /\ opA = "~" /\ opB = "~"
          /\ MajorMinorOf(rangeA).major = MajorMinorOf(rangeB).major
          /\ MajorMinorOf(rangeA).minor = MajorMinorOf(rangeB).minor
       THEN Comparison(TRUE, "same-minor-tilde")
  ELSE IF SemverSubset(rangeA, rangeB) /\ SemverSubset(rangeB, rangeA)
       THEN Comparison(TRUE, "semantically-equal")
  ELSE IF SemverSubset(rangeB, rangeA) THEN Comparison(FALSE, "narrowed")
  ELSE IF SemverSubset(rangeA, rangeB) THEN Comparison(FALSE, "widened")
  ELSE IF SemverIntersects(rangeA, rangeB)
       THEN Comparison(FALSE, "partially-overlapping")
  ELSE Comparison(FALSE, "disjoint")

compareSemverSpecs(specA, specB) ==
  CompareRanges(SpecSyntax(specA).op, SpecSyntax(specB).op,
                SemverRange(specA), SemverRange(specB))

compareGitSpecs(parsedA, parsedB) ==
  LET gitA == parsedA.gitInfo
      gitB == parsedB.gitInfo
  IN IF gitA = None \/ gitB = None THEN Comparison(FALSE, "incompatible-types")
     ELSE IF gitA.url # gitB.url THEN Comparison(FALSE, "disjoint")
     ELSE IF gitA.committish # "" /\ gitB.committish # ""
          THEN (IF gitA.committish = gitB.committish
                THEN Comparison(TRUE, "identical")
                ELSE Comparison(FALSE, "disjoint"))
     ELSE IF gitA.semverRange # "" /\ gitB.semverRange # ""
          THEN compareSemverSpecs(gitA.semverRange, gitB.semverRange)
     ELSE Comparison(FALSE, "incompatible-types")

compareFileSpecs(parsedA, parsedB) ==
  IF parsedA.normalized = parsedB.normalized THEN Comparison(TRUE, "identical")
  ELSE Comparison(FALSE, "disjoint")

MutCompareWorkspaceSpecsRaw(parsedA, parsedB) ==
  IF parsedA.type # "workspace" \/ parsedB.type # "workspace"
  THEN Comparison(FALSE, "incompatible-types")
  ELSE IF parsedA.raw = parsedB.raw THEN Comparison(TRUE, "identical")
  ELSE Comparison(FALSE, "disjoint")

MutCompareWorkspaceSpecsUntyped(parsedA, parsedB) ==
  IF parsedA.workspaceRange = parsedB.workspaceRange
  THEN Comparison(TRUE, "identical")
  ELSE Comparison(FALSE, "disjoint")

compareWorkspaceSpecs(parsedA, parsedB) ==
  IF parsedA.type # "workspace" \/ parsedB.type # "workspace"
  THEN Comparison(FALSE, "incompatible-types")
  ELSE IF parsedA.workspaceRange = parsedB.workspaceRange
       THEN Comparison(TRUE, "identical")
  ELSE Comparison(FALSE, "disjoint")

MutCompareTagSpecsLenient(parsedA, parsedB) ==
  IF parsedA.normalized = parsedB.normalized THEN Comparison(TRUE, "identical")
  ELSE Comparison(TRUE, "disjoint")

compareTagSpecs(parsedA, parsedB) ==
  IF parsedA.normalized = parsedB.normalized THEN Comparison(TRUE, "identical")
  ELSE Comparison(FALSE, "disjoint")

compareUrlSpecs(parsedA, parsedB) ==
  IF parsedA.normalized = parsedB.normalized THEN Comparison(TRUE, "identical")
  ELSE Comparison(FALSE, "disjoint")

RECURSIVE compareVersionSpecifiers(_, _)

compareAliasSpecs(parsedA, parsedB) ==
  IF /\ parsedA.type = "alias" /\ parsedB.type = "alias"
     /\ parsedA.aliasTarget # None /\ parsedB.aliasTarget # None
  THEN compareVersionSpecifiers(parsedA.aliasTarget.raw, parsedB.aliasTarget.raw)
  ELSE IF parsedA.type = "alias" /\ parsedA.aliasTarget # None
       THEN compareVersionSpecifiers(parsedA.aliasTarget.raw, parsedB.raw)
  ELSE IF parsedB.type = "alias" /\ parsedB.aliasTarget # None
       THEN compareVersionSpecifiers(parsedA.raw, parsedB.aliasTarget.raw)
  ELSE Comparison(FALSE, "incompatible-types")

\* lines 238-278, on the two parsed specifiers
CompareParsed(specA, specB, parsedA, parsedB) ==
  IF parsedA.type = "workspace" \/ parsedB.type = "workspace"
  THEN compareWorkspaceSpecs(parsedA, parsedB)
  ELSE IF parsedA.type = "alias" \/ parsedB.type = "alias"
       THEN compareAliasSpecs(parsedA, parsedB)
  ELSE IF getSpecCategory(parsedA.type) # getSpecCategory(parsedB.type)
       THEN Comparison(FALSE, "incompatible-types")
  ELSE IF getSpecCategory(parsedA.type) = "semver"
       THEN compareSemverSpecs(specA, specB)
  ELSE IF parsedA.type = "git" THEN compareGitSpecs(parsedA, parsedB)
  ELSE IF parsedA.type = "file" THEN compareFileSpecs(parsedA, parsedB)
  ELSE IF parsedA.type = "tag" THEN compareTagSpecs(parsedA, parsedB)
  ELSE IF parsedA.type = "url" THEN compareUrlSpecs(parsedA, parsedB)
  ELSE Comparison(FALSE, "unknown-type")

compareVersionSpecifiers(specA, specB) ==
  IF specA = specB THEN Comparison(TRUE, "identical")
  ELSE CompareParsed(specA, specB, parseVersionSpecifier(specA),
                     parseVersionSpecifier(specB))

MutComparisonToSemanticChangeDowngrade(comparison, treatNarrowingOpt) ==
  LET treatNarrowingAsEquivalent == treatNarrowingOpt # Bool(FALSE)
  IN IF comparison.equivalent
     THEN (IF comparison.relation = "identical" THEN "none" ELSE "equivalent")
     ELSE IF comparison.relation \in {"narrowed", "widened"}
          THEN (IF treatNarrowingAsEquivalent THEN "equivalent"
                ELSE comparison.relation)
     ELSE "incompatible"

\* options.treatNarrowingAsEquivalent is None (unset), Bool(TRUE) or Bool(FALSE)
comparisonToSemanticChange(comparison, treatNarrowingOpt) ==
  LET treatNarrowingAsEquivalent == treatNarrowingOpt # Bool(FALSE)
  IN IF comparison.equivalent
     THEN (IF comparison.relation = "identical" THEN "none" ELSE "equivalent")
     ELSE IF comparison.relation = "narrowed"
          THEN (IF treatNarrowingAsEquivalent THEN "equivalent" ELSE "narrowed")
     ELSE IF comparison.relation = "widened" THEN "widened"
     ELSE "incompatible"

----------------------------------------------------------------------------
(* comparators/dependency.ts *)

\* a field of a manifest, undefined when the manifest does not have it
Field(pkg, field) == IF field \in DOMAIN pkg THEN pkg[field] ELSE None

\* the key/value pairs of an object value, none for a missing field (|| {})
Pairs(value) == IF value.t = "object" THEN value.o ELSE <<>>
HasName(pairs, name) == \E i \in 1..Len(pairs) : pairs[i].k = name
ValueOf(pairs, name) ==
  IF HasName(pairs, name)
  THEN pairs[CHOOSE i \in 1..Len(pairs) : pairs[i].k = name].v
  ELSE None

\* JavaScript falsiness of a JSON value: undefined and the empty string
Falsy(value) == value.t = "undefined" \/ (value.t = "string" /\ value.s = "")

compareDependencyObject(localDeps, registryDeps, depType, treatNarrowingOpt) ==
  LET localChange(i) ==
        LET name == localDeps[i].k
            localSpec == localDeps[i].v
            registrySpec == ValueOf(registryDeps, name)
        IN IF Falsy(registrySpec)
           THEN [name |-> name, type |-> depType, action |-> "added",
                 newSpec |-> localSpec, semanticChange |-> "incompatible"]
           ELSE IF localSpec # registrySpec
           THEN [name |-> name, type |-> depType, action |-> "changed",
                 oldSpec |-> registrySpec, newSpec |-> localSpec,
                 semanticChange |->
                   comparisonToSemanticChange(
                     compareVersionSpecifiers(registrySpec.s, localSpec.s),
                     treatNarrowingOpt)]
           ELSE [action |-> "same"]
      registryChange(i) ==
        IF ~HasName(localDeps, registryDeps[i].k)
        THEN [name |-> registryDeps[i].k, type |-> depType, action |-> "removed",
              oldSpec |-> registryDeps[i].v, semanticChange |-> "incompatible"]
        ELSE [action |-> "same"]
  IN SelectSeq([i \in 1..Len(localDeps) |-> localChange(i)],
               LAMBDA c : c.action # "same")
     \o SelectSeq([i \in 1..Len(registryDeps) |-> registryChange(i)],
                  LAMBDA c : c.action # "same")

MutBundledArrayOneSpelling(pkg) ==
  IF ~Falsy(Field(pkg, "bundledDependencies")) THEN Field(pkg, "bundledDependencies").a
  ELSE <<>>

\* bundledDependencies || bundleDependencies || []
BundledArray(pkg) ==
  IF ~Falsy(Field(pkg, "bundledDependencies")) THEN Field(pkg, "bundledDependencies").a
  ELSE IF ~Falsy(Field(pkg, "bundleDependencies")) THEN Field(pkg, "bundleDependencies").a
  ELSE <<>>

compareBundledDeps(local, registry) ==
  LET localBundledArray == BundledArray(local)
      registryBundledArray == BundledArray(registry)
      InArray(arr, name) == \E i \in 1..Len(arr) : arr[i] = name
      Change(name, action) ==
        [name |-> name, type |-> "bundledDependencies", action |-> action,
         semanticChange |-> "incompatible"]
  IN [i \in 1..Len(SelectSeq(localBundledArray,
                             LAMBDA n : ~InArray(registryBundledArray, n))) |->
        Change(SelectSeq(localBundledArray,
                         LAMBDA n : ~InArray(registryBundledArray, n))[i].s, "added")]
     \o
     [i \in 1..Len(SelectSeq(registryBundledArray,
                             LAMBDA n : ~InArray(localBundledArray, n))) |->
        Change(SelectSeq(registryBundledArray,
                         LAMBDA n : ~InArray(localBundledArray, n))[i].s, "removed")]

MutIsSignificantDepChangeAny(c) == c.semanticChange # "none"

IsSignificantDepChange(c) ==
  c.semanticChange # "equivalent" /\ c.semanticChange # "none"

\* depOptions: [includeOptionalDeps, treatNarrowingAsEquivalent], each None
\* when unset
compareDependencies(local, registry, depOptions) ==
  LET includeOptional == depOptions.includeOptionalDeps # Bool(FALSE)
      objectChanges(depType) ==
        compareDependencyObject(Pairs(Field(local, depType)),
                                Pairs(Field(registry, depType)),
                                depType, depOptions.treatNarrowingAsEquivalent)
      changes ==
        objectChanges("dependencies")
        \o objectChanges("peerDependencies")
        \o (IF includeOptional THEN objectChanges("optionalDependencies") ELSE <<>>)
        \o compareBundledDeps(local, registry)
      significantChanges == SelectSeq(changes, IsSignificantDepChange)
  IN [hasChanges |-> Len(significantChanges) > 0,
      changes |-> changes,
      significantChanges |-> significantChanges]

\* the counts that getDependencyChangeSummary prints
getDependencyChangeSummary(changes) ==
  LET Count(P(_)) == Len(SelectSeq(changes, P))
  IN IF Len(changes) = 0 THEN [text |-> "No dependency changes"]
     ELSE [text |-> "Dependencies",
           added |-> Count(LAMBDA c : c.action = "added"),
           removed |-> Count(LAMBDA c : c.action = "removed"),
           significantlyChanged |->
             Count(LAMBDA c : c.action = "changed" /\ IsSignificantDepChange(c)),
           equivalentChanges |->
             Count(LAMBDA c : c.action = "changed" /\ ~IsSignificantDepChange(c)),
           significant |-> Count(IsSignificantDepChange)]

----------------------------------------------------------------------------
(* comparators/package-json.ts *)

SIGNIFICANT_FIELDS ==
  <<"name", "version", "main", "module", "browser", "exports", "types",
    "typings", "type", "bin", "files", "engines", "os", "cpu",
    "peerDependenciesMeta", "packageManager">>

CRITICAL_FIELDS ==
  {"name", "version", "main", "module", "exports", "bin", "types", "typings"}

InSeq(seq, x) == \E i \in 1..Len(seq) : seq[i] = x

\* typeof
TypeOf(value) == IF value.t \in {"array", "object", "null"} THEN "object" ELSE value.t
Nullish(value) == value.t \in {"undefined", "null"}

\* Object.keys of an array are its indices as strings
IndexKeys == <<"0", "1", "2", "3">>
KeysOf(value) ==
  IF value.t = "array" THEN [i \in 1..Len(value.a) |-> IndexKeys[i]]
  ELSE [i \in 1..Len(value.o) |-> value.o[i].k]
Member(value, key) ==
  IF value.t = "array"
  THEN (IF \E i \in 1..Len(value.a) : IndexKeys[i] = key
        THEN value.a[CHOOSE i \in 1..Len(value.a) : IndexKeys[i] = key]
        ELSE None)
  ELSE ValueOf(value.o, key)

RECURSIVE deepEqual(_, _)
deepEqual(a, b) ==
  IF a.t = b.t /\ a.t \in {"undefined", "null"} THEN TRUE
  ELSE IF a.t = b.t /\ a.t = "string" /\ a.s = b.s THEN TRUE
  ELSE IF a.t = b.t /\ a.t = "boolean" /\ a.b = b.b THEN TRUE
  ELSE IF Nullish(a) \/ Nullish(b) THEN FALSE
  ELSE IF TypeOf(a) # TypeOf(b) THEN FALSE
  ELSE IF a.t = "array" /\ b.t = "array"
       THEN /\ Len(a.a) = Len(b.a)
            /\ \A i \in 1..Len(a.a) : deepEqual(a.a[i], b.a[i])
  ELSE IF TypeOf(a) = "object"
       THEN /\ Len(KeysOf(a)) = Len(KeysOf(b))
            /\ \A i \in 1..Len(KeysOf(a)) :
                 deepEqual(Member(a, KeysOf(a)[i]), Member(b, KeysOf(a)[i]))
  ELSE FALSE

normalizeExports(exports) ==
  IF exports.t \in {"string", "array"} THEN Obj(<<KV(".", exports)>>) ELSE exports

compareExports(localExports, registryExports) ==
  IF Nullish(localExports) /\ Nullish(registryExports) THEN FALSE
  ELSE IF Nullish(localExports) \/ Nullish(registryExports) THEN TRUE
  ELSE ~deepEqual(normalizeExports(localExports), normalizeExports(registryExports))

MutNormalizeBinKeepString(bin, packageName) ==
  IF Nullish(bin) THEN None
  ELSE IF TypeOf(bin) \in {"string", "object"} THEN bin
  ELSE None

\* packageName is a PkgName: the bin name is the name without its scope
normalizeBin(bin, packageName) ==
  IF Nullish(bin) THEN None
  ELSE IF bin.t = "string"
       THEN Obj(<<KV(packageName.base, bin)>>)
  ELSE IF TypeOf(bin) = "object" THEN bin
  ELSE None

MutGetFieldSignificanceListed(field, additionalSignificantFields) ==
  IF field \in CRITICAL_FIELDS THEN "critical"
  ELSE IF InSeq(SIGNIFICANT_FIELDS, field) THEN "significant"
  ELSE "informational"

getFieldSignificance(field, additionalSignificantFields) ==
  IF field \in CRITICAL_FIELDS THEN "critical"
  ELSE IF InSeq(SIGNIFICANT_FIELDS, field) THEN "significant"
  ELSE IF InSeq(additionalSignificantFields, field) THEN "significant"
  ELSE "informational"

MutFieldsToCheckKeepIgnored(additionalFields, ignoreFields) ==
  LET added == SelectSeq(additionalFields,
                         LAMBDA f : ~InSeq(SIGNIFICANT_FIELDS, f))
  IN SIGNIFICANT_FIELDS \o added

\* Object.keys(fieldsToCheck): the significant fields, then the additional ones
\* not yet present, without the ignored ones
FieldsToCheck(additionalFields, ignoreFields) ==
  LET added == SelectSeq(additionalFields,
                         LAMBDA f : ~InSeq(SIGNIFICANT_FIELDS, f))
      firstOnly == SelectSeq([i \in 1..Len(added) |-> [f |-> added[i], i |-> i]],
                             LAMBDA e : \A j \in 1..(e.i - 1) : added[j] # e.f)
  IN SelectSeq(SIGNIFICANT_FIELDS \o [i \in 1..Len(firstOnly) |-> firstOnly[i].f],
               LAMBDA f : ~InSeq(ignoreFields, f))

generateSummary(fieldChanges, dependencyChanges) ==
  LET names(sig) ==
        LET cs == SelectSeq(fieldChanges, LAMBDA c : c.significance = sig)
        IN [i \in 1..Len(cs) |-> cs[i].field]
      parts ==
        (IF Len(names("critical")) > 0
         THEN <<[text |-> "Critical field changes", names |-> names("critical")]>>
         ELSE <<>>)
        \o (IF Len(names("significant")) > 0
            THEN <<[text |-> "Significant field changes",
                    names |-> names("significant")]>>
            ELSE <<>>)
        \o (IF Len(dependencyChanges) > 0
            THEN <<getDependencyChangeSummary(dependencyChanges)>>
            ELSE <<>>)
  IN IF Len(parts) = 0 THEN [text |-> "No significant changes"]
     ELSE [text |-> "; ", parts |-> parts]

\* cmpOptions: [includeOptionalDeps, treatNarrowingAsEquivalent: None or Bool,
\*              additionalSignificantFields, ignoreFields: sequences of names]
comparePackageJson(local, registry, cmpOptions) ==
  LET fields == FieldsToCheck(cmpOptions.additionalSignificantFields,
                              cmpOptions.ignoreFields)
      change(field) ==
        LET localValue == Field(local, field)
            registryValue == Field(registry, field)
            entry(significance) ==
              [changed |-> TRUE, field |-> field, oldValue |-> registryValue,
               newValue |-> localValue, significance |-> significance]
        IN IF deepEqual(localValue, registryValue) THEN [changed |-> FALSE]
           ELSE IF field = "exports"
                THEN (IF compareExports(localValue, registryValue)
                      THEN entry("critical") ELSE [changed |-> FALSE])
           ELSE IF field = "bin"
                   /\ deepEqual(normalizeBin(localValue, Field(local, "name").s),
                                normalizeBin(registryValue, Field(registry, "name").s))
                THEN [changed |-> FALSE]
           ELSE entry(getFieldSignificance(field,
                                           cmpOptions.additionalSignificantFields))
      kept == SelectSeq([i \in 1..Len(fields) |-> change(fields[i])],
                        LAMBDA c : c.changed)
      fieldChanges ==
        [i \in 1..Len(kept) |->
           [field |-> kept[i].field, oldValue |-> kept[i].oldValue,
            newValue |-> kept[i].newValue, significance |-> kept[i].significance]]
      depComparison ==
        compareDependencies(local, registry,
          [includeOptionalDeps |-> cmpOptions.includeOptionalDeps,
           treatNarrowingAsEquivalent |-> cmpOptions.treatNarrowingAsEquivalent])
      hasSignificantFieldChanges ==
        \E i \in 1..Len(fieldChanges) :
          fieldChanges[i].significance \in {"critical", "significant"}
  IN [hasSignificantChanges |-> hasSignificantFieldChanges \/ depComparison.hasChanges,
      fieldChanges |-> fieldChanges,
      dependencyChanges |-> depComparison.changes,
      summary |-> generateSummary(fieldChanges, depComparison.changes)]

NEVER_SIGNIFICANT_FIELDS ==
  {"devDependencies", "scripts", "repository", "homepage", "bugs", "author",
   "contributors", "license", "keywords", "description", "readme",
   "readmeFilename", "private", "_id", "_from", "_resolved", "_integrity",
   "_nodeVersion", "_npmVersion", "_npmUser", "dist", "gitHead", "_shasum",
   "_npmOperationalInternal"}

isSignificantField(field, fieldOptions) ==
  IF InSeq(fieldOptions.ignoreFields, field) THEN FALSE
  ELSE IF InSeq(fieldOptions.additionalSignificantFields, field) THEN TRUE
  ELSE IF field \in NEVER_SIGNIFICANT_FIELDS THEN FALSE
  ELSE InSeq(SIGNIFICANT_FIELDS, field)

----------------------------------------------------------------------------
(* needs-publish.ts: results and the delivery of a verdict *)

Versions == {"1.0.0", "2.0.0"}

Result(needsPublish, reason) == [needsPublish |-> needsPublish, reason |-> reason]
ResultWith(needsPublish, reason, changes) ==
  [needsPublish |-> needsPublish, reason |-> reason, changes |-> changes]

FirstPublishChanges == <<[type |-> "first-publish", significance |-> "critical"]>>

\* one invocation of the callback
ResultCall(result) == [error |-> None, result |-> result]
ErrorCall(message) == [error |-> [t |-> "error", message |-> message], result |-> None]

CallbackException == "thrown by callback"

\* The callback invocations that follow from delivering `call` at a place of
\* the code: "sync" (before the async function starts), "try" (inside the
\* try block of the registry step) or "async" (elsewhere in the async
\* function).  A callback that throws inside the try block is caught by the
\* registry catch handler; an exception that leaves the async function
\* rejects its promise, which .catch(callback) hands to the callback.
Delivered(call, place) ==
  IF ~cbThrows THEN <<call>>
  ELSE IF place = "sync" THEN <<call>>
  ELSE IF place = "try"
       THEN <<call,
              ResultCall(Result(TRUE, [text |-> "Error checking registry",
                                       message |-> CallbackException])),
              ErrorCall(CallbackException)>>
  ELSE <<call, ErrorCall(CallbackException)>>

\* deliver and stop: every delivery is followed by a return
Finish(call, place) ==
  /\ calls' = calls \o Delivered(call, place)
  /\ uncaught' = cbThrows
  /\ pc' = "done"

----------------------------------------------------------------------------
(* needs-publish.ts: needsPublishImpl, one action per continuation *)

Init ==
  /\ pc = "start"
  /\ api \in {"promise", "callback"}
  /\ cbThrows \in BOOLEAN
  /\ api = "promise" => ~cbThrows
  /\ localPkg \in [private : BOOLEAN, version : Versions]
  /\ options \in [packageJsonOnly : BOOLEAN]
  /\ latestVersion = None
  /\ registryTarball = None
  /\ localTarball = None
  /\ fileComparison = None
  /\ localTarballPkg = None
  /\ steps = <<>>
  /\ extracted = <<>>
  /\ failure = None
  /\ calls = <<>>
  /\ uncaught = FALSE
  /\ input = None
  /\ output = None

MutIsPrivate(pkg) == FALSE

\* line 33
IsPrivate(pkg) == pkg.private

\* lines 26-39: load the local manifest, skip private packages
Start ==
  /\ pc = "start"
  /\ steps' = Append(steps, "private")
  /\ IF IsPrivate(localPkg)
     THEN Finish(ResultCall(Result(FALSE, [text |-> "Package is private"])), "sync")
     ELSE /\ pc' = "packument"
          /\ UNCHANGED <<calls, uncaught>>
  /\ UNCHANGED <<input, output>>
  /\ UNCHANGED <<api, cbThrows, localPkg, options, latestVersion, registryTarball,
                 localTarball, fileComparison, localTarballPkg, extracted, failure>>

MutVersionDiffers(localVersion, latest) == localVersion = "2.0.0" /\ latest = "1.0.0"

\* line 88
VersionDiffers(localVersion, latest) == localVersion # latest

Failure(op, code) == [t |-> "failure", op |-> op, code |-> code]

\* lines 70-117: the packument arrives.  latest is dist-tags.latest (None when
\* there is none); entry tells what packument.versions[latest] holds
PackumentResolved ==
  /\ pc = "packument"
  /\ \E latest \in {None} \cup {Str(v) : v \in Versions},
        entry \in {"missing", "noTarballUrl", "ok"} :
       /\ latestVersion' = latest
       /\ failure' = IF latest # None /\ ~VersionDiffers(localPkg.version, latest.s)
                         /\ entry # "ok"
                      THEN Failure("tarballUrl", entry) ELSE failure
       /\ IF latest = None
          THEN /\ steps' = Append(steps, "registryFetch")
               /\ Finish(ResultCall(ResultWith(TRUE,
                    [text |-> "No latest version found in registry (first publish)"],
                    FirstPublishChanges)), "try")
          ELSE /\ steps' = steps \o <<"registryFetch", "versionCheck">>
               /\ IF VersionDiffers(localPkg.version, latest.s)
                  THEN Finish(ResultCall(ResultWith(TRUE,
                         [text |-> "Version differs", local |-> localPkg.version,
                          registry |-> latest.s],
                         <<[type |-> "version", field |-> "version",
                            oldValue |-> latest.s, newValue |-> localPkg.version,
                            significance |-> "critical"]>>)), "try")
                  ELSE IF entry = "missing"
                  THEN \* registryPkg.dist throws a TypeError, caught at line 118
                       Finish(ResultCall(Result(TRUE,
                         [text |-> "Error checking registry",
                          message |-> "TypeError"])), "async")
                  ELSE IF entry = "noTarballUrl"
                  THEN Finish(ResultCall(ResultWith(TRUE,
                         [text |-> "Registry package has no tarball URL"],
                         FirstPublishChanges)), "try")
                  ELSE /\ pc' = "tarball"
                       /\ UNCHANGED <<calls, uncaught>>
  /\ UNCHANGED <<input, output>>
  /\ UNCHANGED <<api, cbThrows, localPkg, options, registryTarball, localTarball,
                 fileComparison, localTarballPkg, extracted>>

MutRegistryErrorNoE404(code) ==
  Result(TRUE, [text |-> "Error checking registry", message |-> code])

MutRegistryErrorSilent(code) ==
  IF code = "E404"
  THEN ResultWith(TRUE, [text |-> "Package not found in registry (first publish)"],
                  <<[type |-> "first-publish", significance |-> "critical"]>>)
  ELSE Result(FALSE, [text |-> "Error checking registry", message |-> code])

\* lines 118-135: what the registry catch handler does with an error
RegistryError(code) ==
  IF code = "E404"
  THEN ResultWith(TRUE, [text |-> "Package not found in registry (first publish)"],
                  FirstPublishChanges)
  ELSE Result(TRUE, [text |-> "Error checking registry", message |-> code])

ErrorCodes == {"E404", "ENETWORK"}

\* pacote.packument rejects
PackumentRejected ==
  /\ pc = "packument"
  /\ \E code \in ErrorCodes :
       /\ failure' = Failure("packument", code)
       /\ Finish(ResultCall(RegistryError(code)), "async")
  /\ steps' = Append(steps, "registryFetch")
  /\ UNCHANGED <<input, output>>
  /\ UNCHANGED <<api, cbThrows, localPkg, options, latestVersion, registryTarball,
                 localTarball, fileComparison, localTarballPkg, extracted>>

\* line 114: the registry tarball arrives, one of the archives
TarballArrives(archives) ==
  /\ pc = "tarball"
  /\ registryTarball' \in archives
  /\ steps' = Append(steps, "registryTarball")
  /\ pc' = "pack"
  /\ UNCHANGED <<input, output>>
  /\ UNCHANGED <<api, cbThrows, localPkg, options, latestVersion, localTarball,
                 fileComparison, localTarballPkg, extracted, failure, calls,
                 uncaught>>

TarballResolved == TarballArrives(Archives({"m1"}))

\* pacote.tarball rejects
TarballRejected ==
  /\ pc = "tarball"
  /\ \E code \in ErrorCodes :
       /\ failure' = Failure("tarball", code)
       /\ Finish(ResultCall(RegistryError(code)), "async")
  /\ steps' = Append(steps, "registryTarball")
  /\ UNCHANGED <<input, output>>
  /\ UNCHANGED <<api, cbThrows, localPkg, options, latestVersion, registryTarball,
                 localTarball, fileComparison, localTarballPkg, extracted>>

MutHashesEqual(localTb, registryTb) == FALSE

\* lines 156-159
HashesEqual(localTb, registryTb) == hashBuffer(localTb) = hashBuffer(registryTb)

\* lines 139-165: the local package is packed into one of the archives, then
\* the hashes are compared
Packed(archives) ==
  /\ pc = "pack"
  /\ \E tb \in archives :
       /\ localTarball' = tb
       /\ IF HashesEqual(tb, registryTarball)
          THEN Finish(ResultCall(Result(FALSE,
                 [text |-> "No changes detected", hash |-> hashBuffer(tb)])), "async")
          ELSE /\ pc' = "compare"
               /\ UNCHANGED <<calls, uncaught>>
  /\ steps' = steps \o <<"pack", "hash">>
  /\ UNCHANGED <<input, output>>
  /\ UNCHANGED <<api, cbThrows, localPkg, options, latestVersion, registryTarball,
                 fileComparison, localTarballPkg, extracted, failure>>

PackResolved == Packed(Archives({"m1", "m2"}))

MutPackError(message) ==
  Result(FALSE, [text |-> "Error packing local package", message |-> message])

\* lines 146-152
PackError(message) ==
  Result(TRUE, [text |-> "Error packing local package", message |-> message])

\* lines 146-153: packing fails
PackRejected ==
  /\ pc = "pack"
  /\ failure' = Failure("pack", "EPACK")
  /\ Finish(ResultCall(PackError("EPACK")), "async")
  /\ steps' = Append(steps, "pack")
  /\ UNCHANGED <<input, output>>
  /\ UNCHANGED <<api, cbThrows, localPkg, options, latestVersion, registryTarball,
                 localTarball, fileComparison, localTarballPkg, extracted>>

FileChangeDetails(fileChanges) ==
  [i \in 1..Len(fileChanges) |->
     [type |-> "file", field |-> fileChanges[i].path, significance |-> "significant"]]

MutEntersManifestComparison(comparison, opts) == ~opts.packageJsonOnly

\* line 180: the semantic comparison is entered
EntersManifestComparison(comparison, opts) ==
  comparison.packageJsonOnly /\ ~opts.packageJsonOnly

\* lines 168-180 and 236-245: both tarballs extracted and compared file by file
FilesCompared ==
  /\ pc = "compare"
  /\ LET comparison == comparePackageFiles(localTarball, registryTarball)
     IN /\ fileComparison' = comparison
        /\ IF comparison.identical
           THEN Finish(ResultCall(Result(FALSE,
                  [text |-> "Files identical (tarball metadata differs)"])), "async")
           ELSE IF EntersManifestComparison(comparison, options)
           THEN /\ pc' = "extractLocal"
                /\ UNCHANGED <<calls, uncaught>>
           ELSE Finish(ResultCall(ResultWith(TRUE,
                  [text |-> "Code changes detected",
                   count |-> Len(comparison.fileChanges)],
                  FileChangeDetails(comparison.fileChanges))), "async")
  /\ steps' = Append(steps, "fileComparison")
  /\ extracted' = IF hashBuffer(localTarball) = hashBuffer(registryTarball)
                  THEN extracted ELSE extracted \o <<"local", "registry">>
  /\ UNCHANGED <<input, output>>
  /\ UNCHANGED <<api, cbThrows, localPkg, options, latestVersion, registryTarball,
                 localTarball, localTarballPkg, failure>>

\* line 183: package.json is read from the local tarball
ExtractLocalPackageJson ==
  /\ pc = "extractLocal"
  /\ LET got == extractPackageJson(localTarball)
     IN IF got.ok
        THEN /\ localTarballPkg' = got.value
             /\ pc' = "extractRegistry"
             /\ UNCHANGED <<calls, uncaught>>
        ELSE /\ Finish(ErrorCall(got.error), "sync")
             /\ UNCHANGED localTarballPkg
  /\ steps' = Append(steps, "manifestComparison")
  /\ extracted' = Append(extracted, "local")
  /\ UNCHANGED <<input, output>>
  /\ UNCHANGED <<api, cbThrows, localPkg, options, latestVersion, registryTarball,
                 localTarball, fileComparison, failure>>

FieldChangeDetails(fieldChanges, informational) ==
  [i \in 1..Len(fieldChanges) |->
     [type |-> "field", field |-> fieldChanges[i].field,
      oldValue |-> fieldChanges[i].oldValue, newValue |-> fieldChanges[i].newValue,
      significance |-> IF informational THEN "informational"
                       ELSE fieldChanges[i].significance]]

DependencyChangeDetails(dependencyChanges) ==
  LET significant == SelectSeq(dependencyChanges, IsSignificantDepChange)
  IN [i \in 1..Len(significant) |->
        [type |-> "dependency",
         field |-> <<significant[i].type, ".", significant[i].name>>,
         oldValue |-> Field(significant[i], "oldSpec"),
         newValue |-> Field(significant[i], "newSpec"),
         significance |-> "significant"]]

\* the options needsPublishImpl hands to comparePackageJson
CompareOptions(opts) ==
  [includeOptionalDeps |-> Field(opts, "includeOptionalDeps"),
   treatNarrowingAsEquivalent |-> Field(opts, "treatNarrowingAsEquivalent"),
   additionalSignificantFields |-> <<>>,
   ignoreFields |-> <<>>]

\* lines 193-233: the verdict of the semantic comparison
ManifestVerdict(pkgJsonComparison) ==
  IF ~pkgJsonComparison.hasSignificantChanges
  THEN ResultWith(FALSE,
         [text |-> "Package.json changes are not significant for consumers"],
         FieldChangeDetails(pkgJsonComparison.fieldChanges, TRUE))
  ELSE ResultWith(TRUE, pkgJsonComparison.summary,
         FieldChangeDetails(pkgJsonComparison.fieldChanges, FALSE)
         \o DependencyChangeDetails(pkgJsonComparison.dependencyChanges))

\* lines 184-234: package.json is read from the registry tarball and the two
\* documents are compared
ExtractRegistryPackageJson ==
  /\ pc = "extractRegistry"
  /\ LET got == extractPackageJson(registryTarball)
     IN IF got.ok
        THEN Finish(ResultCall(ManifestVerdict(
               comparePackageJson(localTarballPkg, got.value,
                                  CompareOptions(options)))), "async")
        ELSE Finish(ErrorCall(got.error), "sync")
  /\ extracted' = Append(extracted, "registry")
  /\ UNCHANGED <<input, output>>
  /\ UNCHANGED <<api, cbThrows, localPkg, options, latestVersion, registryTarball,
                 localTarball, fileComparison, localTarballPkg, steps, failure>>

Next ==
  \/ Start
  \/ PackumentResolved
  \/ PackumentRejected
  \/ TarballResolved
  \/ TarballRejected
  \/ PackResolved
  \/ PackRejected
  \/ FilesCompared
  \/ ExtractLocalPackageJson
  \/ ExtractRegistryPackageJson

Spec == Init /\ [][Next]_vars

----------------------------------------------------------------------------
(* needsPublishImpl on packages that carry a package.json in a subdirectory *)

\* 'package/lib/package.json', a package.json below the package's root
NestedManifestPath ==
  PackageDir \o <<"/","l","i","b">> \o SlashPackageJson

\* the documents of the nested package.json: the module type of the directory
NestedManifests == {[type |-> Str("commonjs")], [type |-> Str("module")]}

NestedContentsOf(p) ==
  IF p = RootManifestPath
  THEN {Json(BaseManifest), Json([BaseManifest EXCEPT !.description = Str("d2")])}
  ELSE IF p = NestedManifestPath THEN {Json(m) : m \in NestedManifests}
  ELSE {Blob("b1"), Blob("b2")}

NestedEntries ==
  UNION {{[path |-> p, content |-> c] : c \in NestedContentsOf(p)} :
           p \in {RootManifestPath, NestedManifestPath, IndexPath}}

\* the tarballs of such packages, each path once, in archive order
NestedArchives(metas) ==
  {[meta |-> m, entries |-> es] :
     m \in metas,
     es \in UNION {{es \in [1..n -> NestedEntries] :
                      \A i, j \in 1..n : i # j => es[i].path # es[j].path} :
                    n \in 0..MaxFiles}}

NestedTarballResolved == TarballArrives(NestedArchives({"m1"}))

NestedPackResolved == Packed(NestedArchives({"m1", "m2"}))

NextNested ==
  \/ Start
  \/ PackumentResolved
  \/ PackumentRejected
  \/ NestedTarballResolved
  \/ TarballRejected
  \/ NestedPackResolved
  \/ PackRejected
  \/ FilesCompared
  \/ ExtractLocalPackageJson
  \/ ExtractRegistryPackageJson

SpecNested == Init /\ [][NextNested]_vars

----------------------------------------------------------------------------
(* comparators/index.ts: the comparators as a program calls them directly *)

\* the specifier texts compared
Specifiers ==
  {"0.0.1", "1.2.3", "1.2.5", "^0.0.1", "^0.1.0", "^1.0.0", "^1.2.3", "^1.5.0", "^2.0.0",
   "^4.17.0", "^4.17.21", "^5.0.0", "^1.0.0 || ^2.0.0", "~4.17.0", "~4.17.5",
   "~4.18.0", "*", "", "1.x", ">=1.0.0", "1.0.0 - 2.0.0", ">=1.0.0 || >=2.0.0",
   "latest", "next", "file:../local", "file:../other",
   "https://example.com/a.tgz", "https://example.com/b.tgz",
   "git+https://github.com/user/repo.git",
   "git+https://github.com/user/repo.git#v1.0.0",
   "git+https://github.com/user/repo.git#v2.0.0",
   "git+https://github.com/user/repo.git#semver:^1.0.0",
   "git+https://github.com/user/repo.git#semver:^1.2.3",
   "git+https://github.com/user/other.git#v1.0.0",
   "npm:left@^1.0.0", "npm:right@^1.2.3", "npm:left@latest",
   "workspace:*", "workspace:^", "workspace:"}

\* an optional boolean option: unset, true or false
OptionalBoolean == {None, Bool(TRUE), Bool(FALSE)}

\* m with field set to value
With(m, field, value) ==
  [f \in DOMAIN m \cup {field} |-> IF f = field THEN value ELSE m[f]]

LibraryManifest ==
  [name |-> Str(PkgName("", "p")), version |-> Str("1.0.0"),
   main |-> Str("index.js")]

Dep(name, spec) == Obj(<<KV(name, Str(spec))>>)

\* the manifests compared: the plain one and its variations in one field (two
\* fields for the bundled spellings)
LibraryManifests ==
  {LibraryManifest}
  \cup {With(LibraryManifest, "dependencies", Dep("lodash", spec)) :
          spec \in {"^4.17.21", "^4.17.0", "^5.0.0", "*", ""}}
  \cup {With(LibraryManifest, "dependencies",
             Obj(<<KV("lodash", Str("^4.17.21")), KV("left", Str("^1.0.0"))>>))}
  \cup {With(LibraryManifest, "peerDependencies", Dep("react", spec)) :
          spec \in {"^1.0.0", "^2.0.0"}}
  \cup {With(LibraryManifest, "optionalDependencies", Dep("fsevents", spec)) :
          spec \in {"^2.0.0", "*"}}
  \cup {With(LibraryManifest, "bundledDependencies", Arr(names)) :
          names \in {<<Str("a")>>, <<Str("a"), Str("b")>>}}
  \cup {With(LibraryManifest, "bundleDependencies", Arr(<<Str("a")>>))}
  \cup {With(With(LibraryManifest, "bundledDependencies", Arr(names)),
             "bundleDependencies", Arr(<<Str("a")>>)) :
          names \in {<<>>, <<Str("b")>>}}
  \cup {With(LibraryManifest, "description", Str("d2")),
        With(LibraryManifest, "scripts", Dep("test", "mocha")),
        With(LibraryManifest, "devDependencies", Dep("mocha", "^1.0.0")),
        With(LibraryManifest, "customField", Str("x")),
        With(LibraryManifest, "main", Str("lib.js")),
        With(LibraryManifest, "engines", Dep("node", ">=1.0.0"))}
  \cup {With(LibraryManifest, "dependencies", Dep("util", spec)) :
          spec \in {"npm:left@^1.0.0", "npm:right@^1.2.3"}}
  \cup {With(pkg, "bin", bin) :
          pkg \in {LibraryManifest,
                   With(LibraryManifest, "name", Str(PkgName("scope", "p")))},
          bin \in {Str("./cli.js"), Dep("p", "./cli.js"), Dep("p", "./other.js")}}

\* the CompareOptions a caller passes
LibraryOptions ==
  [includeOptionalDeps : {None, Bool(FALSE)},
   treatNarrowingAsEquivalent : {None, Bool(FALSE)},
   additionalSignificantFields : {<<>>, <<"description">>, <<"customField">>},
   ignoreFields : {<<>>, <<"main">>, <<"description">>}]

Inputs ==
  {[kind |-> "specifiers", specA |-> a, specB |-> b] : a, b \in Specifiers}
  \cup {[kind |-> "comparison",
         comparison |-> compareVersionSpecifiers(a, b),
         treatNarrowingAsEquivalent |-> o] :
          a, b \in Specifiers, o \in OptionalBoolean}
  \cup {[kind |-> "manifests", local |-> l, registry |-> r, options |-> o] :
          l, r \in LibraryManifests, o \in LibraryOptions}
  \cup {[kind |-> "field", field |-> f, options |-> o] :
          f \in {"main", "description", "scripts", "customField"},
          o \in LibraryOptions}

Returned(fn, result) == [fn |-> fn, result |-> result]

InitComparators ==
  /\ input \in Inputs
  /\ output = None
  /\ pc = "library"
  /\ api = "promise"
  /\ cbThrows = FALSE
  /\ localPkg = [private |-> FALSE, version |-> "1.0.0"]
  /\ options = [packageJsonOnly |-> FALSE]
  /\ latestVersion = None
  /\ registryTarball = None
  /\ localTarball = None
  /\ fileComparison = None
  /\ localTarballPkg = None
  /\ steps = <<>>
  /\ extracted = <<>>
  /\ failure = None
  /\ calls = <<>>
  /\ uncaught = FALSE

Returns(kind, result) ==
  /\ pc = "library"
  /\ input.kind = kind
  /\ output = None
  /\ output' = result
  /\ UNCHANGED <<input, pc, api, cbThrows, localPkg, options, latestVersion,
                 registryTarball, localTarball, fileComparison, localTarballPkg,
                 steps, extracted, failure, calls, uncaught>>

CallCompareVersionSpecifiers ==
  Returns("specifiers",
          Returned("compareVersionSpecifiers",
                   compareVersionSpecifiers(input.specA, input.specB)))

CallComparisonToSemanticChange ==
  Returns("comparison",
          Returned("comparisonToSemanticChange",
                   comparisonToSemanticChange(input.comparison,
                                              input.treatNarrowingAsEquivalent)))

CallCompareDependencies ==
  Returns("manifests",
          Returned("compareDependencies",
                   compareDependencies(input.local, input.registry,
                     [includeOptionalDeps |-> input.options.includeOptionalDeps,
                      treatNarrowingAsEquivalent |->
                        input.options.treatNarrowingAsEquivalent])))

CallComparePackageJson ==
  Returns("manifests",
          Returned("comparePackageJson",
                   comparePackageJson(input.local, input.registry, input.options)))

CallIsSignificantField ==
  Returns("field",
          Returned("isSignificantField",
                   isSignificantField(input.field, input.options)))

NextComparators ==
  \/ CallCompareVersionSpecifiers
  \/ CallComparisonToSemanticChange
  \/ CallCompareDependencies
  \/ CallComparePackageJson
  \/ CallIsSignificantField

SpecComparators == InitComparators /\ [][NextComparators]_vars

----------------------------------------------------------------------------
(* cli.ts: the command line program around needsPublish *)

\* the values parseArgs returns and whether <cwd>/package.json can be read
Argv(flags, manifest) ==
  [kind |-> "argv",
   help |-> "help" \in flags,
   version |-> "version" \in flags,
   json |-> "json" \in flags,
   verbose |-> "verbose" \in flags,
   packageJsonOnly |-> "package-json-only" \in flags,
   noOptionalDeps |-> "no-optional-deps" \in flags,
   manifest |-> manifest]

\* the command lines run
Argvs ==
  {Argv(flags, "present") :
     flags \in {{}, {"json"}, {"verbose", "package-json-only"},
                {"json", "no-optional-deps"}, {"help"}, {"version", "json"}}}
  \cup {Argv(flags, "missing") : flags \in {{}, {"json"}, {"help"}}}

\* process.exit(code) after the lines written to stdout and stderr
Exited(code, stdout, stderr) == [exit |-> code, stdout |-> stdout, stderr |-> stderr]

formatResult(result, verbose) ==
  [text |-> IF result.needsPublish THEN "Package NEEDS publishing"
            ELSE "Package does NOT need publishing",
   reason |-> result.reason,
   changes |-> IF verbose /\ "changes" \in DOMAIN result THEN result.changes
               ELSE <<>>]

MutCliResolvedSwapped(values, result) ==
  Exited(IF result.needsPublish THEN 0 ELSE 1,
         IF values.json THEN [format |-> "json", value |-> result]
         ELSE [format |-> "text", value |-> formatResult(result, values.verbose)],
         None)

\* lines 166-174: needsPublish resolved
CliResolved(values, result) ==
  Exited(IF result.needsPublish THEN 1 ELSE 0,
         IF values.json THEN [format |-> "json", value |-> result]
         ELSE [format |-> "text", value |-> formatResult(result, values.verbose)],
         None)

\* lines 175-191: needsPublish rejected
CliRejected(values, message) ==
  IF values.json
  THEN Exited(2, [format |-> "json",
                  value |-> [error |-> TRUE, message |-> message]], None)
  ELSE Exited(2, None, [text |-> "Error", message |-> message])

InitCli ==
  /\ input \in Argvs
  /\ output = None
  /\ pc = "cli"
  /\ api = "promise"
  /\ cbThrows = FALSE
  /\ localPkg \in [private : BOOLEAN, version : Versions]
  /\ options = None
  /\ latestVersion = None
  /\ registryTarball = None
  /\ localTarball = None
  /\ fileComparison = None
  /\ localTarballPkg = None
  /\ steps = <<>>
  /\ extracted = <<>>
  /\ failure = None
  /\ calls = <<>>
  /\ uncaught = FALSE

\* lines 104-166 and needs-publish.ts 27-30: the arguments are parsed, --version
\* and --help exit, otherwise needsPublish is called and loads the local
\* package.json; readFileSync throws when there is none, which rejects the
\* promise
CliStart ==
  /\ pc = "cli"
  /\ IF input.version
     THEN /\ output' = Exited(0, [format |-> "text", value |-> "version"], None)
          /\ pc' = "exited"
          /\ UNCHANGED <<options, failure>>
     ELSE IF input.help
     THEN /\ output' = Exited(0, [format |-> "text", value |-> "help"], None)
          /\ pc' = "exited"
          /\ UNCHANGED <<options, failure>>
     ELSE /\ options' = [packageJsonOnly |-> input.packageJsonOnly,
                         includeOptionalDeps |-> Bool(~input.noOptionalDeps)]
          /\ IF input.manifest = "missing"
             THEN /\ failure' = Failure("readFileSync", "ENOENT")
                  /\ pc' = "done"
             ELSE /\ pc' = "start"
                  /\ UNCHANGED failure
          /\ UNCHANGED output
  /\ UNCHANGED <<input, api, cbThrows, localPkg, latestVersion, registryTarball,
                 localTarball, fileComparison, localTarballPkg, steps, extracted,
                 calls, uncaught>>

\* lines 166-191: the promise of needsPublish is settled
CliExit ==
  /\ pc = "done"
  /\ output = None
  /\ output' = IF calls = <<>> THEN CliRejected(input, failure.code)
               ELSE IF calls[1].error # None
                    THEN CliRejected(input, calls[1].error.message)
               ELSE CliResolved(input, calls[1].result)
  /\ pc' = "exited"
  /\ UNCHANGED <<input, api, cbThrows, localPkg, options, latestVersion,
                 registryTarball, localTarball, fileComparison, localTarballPkg,
                 steps, extracted, failure, calls, uncaught>>

NextCli ==
  \/ CliStart
  \/ Start
  \/ PackumentResolved
  \/ PackumentRejected
  \/ TarballResolved
  \/ TarballRejected
  \/ PackResolved
  \/ PackRejected
  \/ FilesCompared
  \/ ExtractLocalPackageJson
  \/ ExtractRegistryPackageJson
  \/ CliExit

SpecCli == InitCli /\ [][NextCli]_vars

----------------------------------------------------------------------------
(* Properties of one invocation *)

Done == pc = "done"

\* what the caller receives: the first invocation of the callback (the
\* promise of needsPublish is settled by it)
Outcome == calls[1]
IsVerdict(call) == call.error = None /\ call.result # None
RanAny(names) == \E i \in 1..Len(steps) : steps[i] \in names

\* C1: once the registry's latest version is known and the local version
\* differs from it, the verdict is needsPublish=true, "Version differs",
\* with the single critical 'version' change, and the invocation has fetched no
\* tarball, packed, hashed, extracted or compared nothing.
C1_VersionDiffersDecides ==
  (Done /\ latestVersion # None /\ localPkg.version # latestVersion.s) =>
    /\ IsVerdict(Outcome)
    /\ Outcome.result.needsPublish = TRUE
    /\ Outcome.result.reason.text = "Version differs"
    /\ Outcome.result.reason.local = localPkg.version
    /\ Outcome.result.reason.registry = latestVersion.s
    /\ Len(Outcome.result.changes) = 1
    /\ Outcome.result.changes[1].type = "version"
    /\ Outcome.result.changes[1].significance = "critical"
    /\ api = "promise" => Len(calls) = 1
    /\ steps = <<"private", "registryFetch", "versionCheck">>
    /\ registryTarball = None /\ localTarball = None
    /\ fileComparison = None /\ localTarballPkg = None /\ extracted = <<>>

C1_Witness ==
  /\ Done /\ latestVersion # None /\ localPkg.version # latestVersion.s
  /\ Len(calls) > 0 /\ Outcome.result.reason.text = "Version differs"

\* C2: when the registry fetch reports not-found (E404), the verdict is
\* needsPublish=true, "first publish", with the single first-publish change,
\* and no pack, hash, file comparison or manifest comparison runs.
C2_NotFoundIsFirstPublish ==
  (Done /\ failure # None /\ failure.code = "E404") =>
    /\ IsVerdict(Outcome)
    /\ Outcome.result.needsPublish = TRUE
    /\ Outcome.result.reason.text = "Package not found in registry (first publish)"
    /\ Len(Outcome.result.changes) = 1
    /\ Outcome.result.changes[1].type = "first-publish"
    /\ api = "promise" => Len(calls) = 1
    /\ ~RanAny({"pack", "hash", "fileComparison", "manifestComparison"})
    /\ localTarball = None /\ fileComparison = None /\ extracted = <<>>

C2_Witness ==
  /\ Done /\ failure = Failure("packument", "E404")
  /\ Len(calls) > 0 /\ Outcome.result.needsPublish

\* C3: a private local manifest gives needsPublish=false, "Package is
\* private", before anything else: no registry fetch, pack, hash or comparison.
C3_PrivateShortCircuit ==
  (localPkg.private /\ pc # "start") =>
    /\ Done
    /\ IsVerdict(Outcome)
    /\ Outcome.result.needsPublish = FALSE
    /\ Outcome.result.reason.text = "Package is private"
    /\ Len(calls) = 1
    /\ steps = <<"private">>
    /\ latestVersion = None /\ registryTarball = None /\ localTarball = None
    /\ fileComparison = None /\ extracted = <<>> /\ failure = None

C3_Witness == localPkg.private /\ Done /\ Len(calls) = 1

\* C4: when the versions match and the two archives have the same bytes (so
\* the same strong hash), the verdict is needsPublish=false, "No changes
\* detected", and neither archive is extracted.
C4_EqualHashNoChanges ==
  (Done /\ localTarball # None /\ localTarball = registryTarball) =>
    /\ latestVersion.s = localPkg.version
    /\ IsVerdict(Outcome)
    /\ Outcome.result.needsPublish = FALSE
    /\ Outcome.result.reason.text = "No changes detected"
    /\ api = "promise" => Len(calls) = 1
    /\ extracted = <<>>
    /\ ~RanAny({"fileComparison", "manifestComparison"})

C4_Witness ==
  /\ Done /\ localTarball # None /\ localTarball = registryTarball
  /\ Len(localTarball.entries) > 0 /\ Len(calls) > 0

\* the package manifest as the specification names it: the exact path, or a
\* path that ends in '/package.json'
EndsWith(str, suffix) ==
  /\ Len(str) >= Len(suffix)
  /\ SubSeq(str, Len(str) - Len(suffix) + 1, Len(str)) = suffix
IsManifestPath(path) == path = RootManifestPath \/ EndsWith(path, SlashPackageJson)
HasManifest(tarball) ==
  \E i \in 1..Len(tarball.entries) : IsManifestPath(tarball.entries[i].path)
ManifestOf(tarball) ==
  tarball.entries[CHOOSE i \in 1..Len(tarball.entries) :
                    tarball.entries[i].path = RootManifestPath].content.v
CountType(changes, type) == Len(SelectSeq(changes, LAMBDA c : c.type = type))

\* C5: when versions match, hashes differ and the file comparison reports a
\* change to a path that is not the manifest, the verdict is needsPublish=true,
\* "Code changes detected", with one 'file' change per reported file change.
C5_CodeChangesNeedPublish ==
  (/\ Done /\ fileComparison # None
   /\ \E i \in 1..Len(fileComparison.fileChanges) :
        ~IsManifestPath(fileComparison.fileChanges[i].path)) =>
    /\ IsVerdict(Outcome)
    /\ Outcome.result.needsPublish = TRUE
    /\ Outcome.result.reason.text = "Code changes detected"
    /\ Len(Outcome.result.changes) = Len(fileComparison.fileChanges)
    /\ \A i \in 1..Len(fileComparison.fileChanges) :
         /\ Outcome.result.changes[i].type = "file"
         /\ Outcome.result.changes[i].field = fileComparison.fileChanges[i].path

\* C6: when the only file change is to the manifest (present in both
\* archives), the verdict is the one of the manifest comparison of the two
\* extracted manifests: needsPublish=false without significant changes,
\* otherwise needsPublish=true with the summary as reason and the field and
\* dependency changes as evidence.
C6_ManifestOnlyDecidedSemantically ==
  (/\ Done /\ fileComparison # None
   /\ Len(fileComparison.fileChanges) > 0
   /\ \A i \in 1..Len(fileComparison.fileChanges) :
        /\ fileComparison.fileChanges[i].path = RootManifestPath
        /\ fileComparison.fileChanges[i].action = "modified") =>
    LET cmp == comparePackageJson(ManifestOf(localTarball),
                                  ManifestOf(registryTarball),
                                  CompareOptions(options))
    IN /\ IsVerdict(Outcome)
       /\ Outcome.result.needsPublish = cmp.hasSignificantChanges
       /\ cmp.hasSignificantChanges =>
            /\ Outcome.result.reason = cmp.summary
            /\ \A i \in 1..Len(Outcome.result.changes) :
                 Outcome.result.changes[i].type \in {"field", "dependency"}
            /\ CountType(Outcome.result.changes, "field") = Len(cmp.fieldChanges)
            /\ CountType(Outcome.result.changes, "dependency")
                 <= Len(cmp.dependencyChanges)

\* C7: with packageJsonOnly=true the file-content comparison is skipped and
\* the verdict comes from the manifest comparison; with packageJsonOnly=false
\* the content comparison runs before any manifest comparison.
C7_PackageJsonOnlySkipsContent ==
  /\ options.packageJsonOnly =>
       /\ ~RanAny({"fileComparison"})
       /\ (Done /\ localTarball # None /\ localTarball # registryTarball) =>
            RanAny({"manifestComparison"})
  /\ (~options.packageJsonOnly /\ RanAny({"manifestComparison"})) =>
       RanAny({"fileComparison"})

\* C8: a registry or packing failure other than not-found (network error,
\* missing tarball URL, pack error) never ends in needsPublish=false: the
\* caller gets a verdict with needsPublish=true.
C8_FailureAssumesPublish ==
  (Done /\ failure # None /\ failure.code # "E404") =>
    /\ IsVerdict(Outcome)
    /\ Outcome.result.needsPublish = TRUE
    /\ \A i \in 1..Len(calls) :
         calls[i].result # None => calls[i].result.needsPublish = TRUE

C8_Witness ==
  /\ Done /\ failure = Failure("pack", "EPACK")
  /\ Len(calls) > 0 /\ Outcome.result.needsPublish

\* C9 as claimed: if an archive contains no manifest file, no verdict is
\* produced and the caller receives an error.
C9_MissingManifestNeverVerdict ==
  (/\ Done /\ localTarball # None /\ registryTarball # None
   /\ (~HasManifest(localTarball) \/ ~HasManifest(registryTarball))) =>
    /\ Outcome.error # None
    /\ \A i \in 1..Len(calls) : calls[i].result = None

NoAcceptedEntry(tarball) ==
  \A i \in 1..Len(tarball.entries) : ~isPackageJson(tarball.entries[i].path)

\* C9 amended: if the manifest comparison is reached and an archive has no
\* entry that the manifest path test accepts, extractPackageJson fails and the
\* caller receives the error and never a needsPublish result.
C9_MissingManifestSurfaced ==
  (/\ Done /\ RanAny({"manifestComparison"})
   /\ (NoAcceptedEntry(localTarball) \/ NoAcceptedEntry(registryTarball))) =>
    /\ Outcome.error # None
    /\ Outcome.result = None
    /\ NoAcceptedEntry(localTarball) =>
         Outcome.error.message = "package.json not found in tarball"
    /\ \A i \in 1..Len(calls) : calls[i].result = None

C9_Witness ==
  /\ Done /\ RanAny({"manifestComparison"})
  /\ ~NoAcceptedEntry(localTarball) /\ NoAcceptedEntry(registryTarball)
  /\ Len(calls) > 0 /\ Outcome.error # None

StepOrder ==
  <<"private", "registryFetch", "versionCheck", "registryTarball", "pack",
    "hash", "fileComparison", "manifestComparison">>

\* the steps run so far are the first steps of the order, and each ran with
\* the fast exits of the steps before it evaluated and false
StepsInOrder ==
  /\ Len(steps) <= Len(StepOrder)
  /\ steps = SubSeq(StepOrder, 1, Len(steps))
  /\ RanAny({"registryFetch"}) => ~localPkg.private
  /\ RanAny({"versionCheck"}) => latestVersion # None
  /\ RanAny({"registryTarball"}) => latestVersion.s = localPkg.version
  /\ RanAny({"pack"}) => registryTarball # None \/ failure # None
  /\ RanAny({"hash"}) => localTarball # None /\ registryTarball # None
  /\ RanAny({"fileComparison"}) => localTarball # registryTarball
  /\ RanAny({"manifestComparison"}) =>
       /\ ~fileComparison.identical
       /\ fileComparison.packageJsonOnly
  /\ calls # <<>> => Done

\* C10: the steps of one invocation run strictly in the order private check,
\* registry fetch, version check, registry tarball fetch, local pack, hash
\* check, file comparison, manifest comparison, each only after the fast exits
\* before it were found false, and no step runs after a verdict was delivered.
C10_StrictStepOrder ==
  /\ []StepsInOrder
  /\ [][calls # <<>> => steps' = steps]_vars

C10_Witness ==
  /\ Done /\ steps = StepOrder /\ Len(calls) > 0 /\ IsVerdict(Outcome)

\* the end-to-end scenario: the registry manifest requires lodash ^4.17.21, the
\* local one lodash ^4.17.0, nothing else differs between the two archives
HasRootManifest(tarball) ==
  \E i \in 1..Len(tarball.entries) : tarball.entries[i].path = RootManifestPath
OtherFilesOf(tarball) ==
  {tarball.entries[i] : i \in {j \in 1..Len(tarball.entries) :
                                 tarball.entries[j].path # RootManifestPath}}
CaretBumpScenario ==
  /\ Done /\ localTarball # None /\ registryTarball # None
  /\ HasRootManifest(localTarball) /\ HasRootManifest(registryTarball)
  /\ ManifestOf(registryTarball) = BaseManifest
  /\ ManifestOf(localTarball) = [BaseManifest EXCEPT !.dependencies = Deps("^4.17.0")]
  /\ OtherFilesOf(localTarball) = OtherFilesOf(registryTarball)
\* the result names the dependency change: its reason is the summary with the
\* dependency tally, or its evidence has a dependency entry
ReferencesDependencyChange(result) ==
  \/ /\ "parts" \in DOMAIN result.reason
     /\ \E i \in 1..Len(result.reason.parts) :
          result.reason.parts[i].text = "Dependencies"
  \/ /\ "changes" \in DOMAIN result
     /\ \E i \in 1..Len(result.changes) : result.changes[i].type = "dependency"
\* the entry that extractPackageJson selects is the root manifest
SelectsRootManifest(tarball) ==
  /\ FindPackageJson(extractTarball(tarball)) # 0
  /\ extractTarball(tarball)[FindPackageJson(extractTarball(tarball))].path
       = RootManifestPath

\* C11 as claimed: in the caret-bump scenario the verdict is no-publish and
\* the returned reason references the equivalent dependency change.
C11_CaretBumpReasonNamesDependency ==
  CaretBumpScenario =>
    /\ IsVerdict(Outcome)
    /\ Outcome.result.needsPublish = FALSE
    /\ ReferencesDependencyChange(Outcome.result)

\* C11 amended: in the caret-bump scenario with packageJsonOnly=false and the
\* root manifest being the entry extractPackageJson selects in both archives,
\* the verdict is no-publish with the fixed reason 'Package.json changes are
\* not significant for consumers' and no change entries; the result does not
\* reference the dependency change. With packageJsonOnly=true the verdict is
\* 'Code changes detected', and when another entry is selected the caller gets
\* an error.
C11_CaretBumpNoPublish ==
  CaretBumpScenario =>
    IF options.packageJsonOnly
    THEN /\ IsVerdict(Outcome)
         /\ Outcome.result.needsPublish = TRUE
         /\ Outcome.result.reason.text = "Code changes detected"
    ELSE IF ~SelectsRootManifest(localTarball) \/ ~SelectsRootManifest(registryTarball)
    THEN Outcome.error # None /\ Outcome.result = None
    ELSE /\ IsVerdict(Outcome)
         /\ Outcome.result.needsPublish = FALSE
         /\ Outcome.result.reason.text =
              "Package.json changes are not significant for consumers"
         /\ Outcome.result.changes = <<>>
         /\ ~ReferencesDependencyChange(Outcome.result)

C11_Witness ==
  /\ CaretBumpScenario /\ ~options.packageJsonOnly
  /\ OtherFilesOf(localTarball) # {}
  /\ Len(calls) > 0 /\ IsVerdict(Outcome) /\ Outcome.result.needsPublish = FALSE
  /\ steps = StepOrder


----------------------------------------------------------------------------
(* Properties of compareVersionSpecifiers *)

EquivalentRelations ==
  {"identical", "normalized-equal", "semantically-equal", "same-major-caret",
   "same-minor-tilde"}

SemverTypes == {"exact", "caret", "tilde", "range", "x-range", "hyphen", "or"}

\* compareVersionSpecifiers has returned
ComparedSpecifiers == output # None /\ output.fn = "compareVersionSpecifiers"

\* C12: for every pair of specifiers the result of compareVersionSpecifiers has
\* equivalent true exactly when its relation is one of identical,
\* normalized-equal, semantically-equal, same-major-caret, same-minor-tilde.
C12_EquivalentExactlyForFiveRelations ==
  ComparedSpecifiers =>
    (output.result.equivalent <=> output.result.relation \in EquivalentRelations)

\* every one of the five relations and every non-equivalent relation is returned
\* for some pair; here two different tags are found disjoint
C12_Witness ==
  /\ ComparedSpecifiers
  /\ input.specA = "latest" /\ input.specB = "next"
  /\ output.result = Comparison(FALSE, "disjoint")

\* C13: a semver-class specifier (exact, caret, tilde, range, x-range, hyphen,
\* or) compared with a file, git, tag, url or workspace specifier, in either
\* argument order, is not equivalent and the relation is incompatible-types.
C13_CategoryGate ==
  LET typeA == parseVersionSpecifier(input.specA).type
      typeB == parseVersionSpecifier(input.specB).type
      others == {"file", "git", "tag", "url", "workspace"}
  IN (/\ ComparedSpecifiers
      /\ \/ typeA \in SemverTypes /\ typeB \in others
         \/ typeB \in SemverTypes /\ typeA \in others)
     => output.result = Comparison(FALSE, "incompatible-types")

\* a workspace specifier on the left, a caret range on the right
C13_Witness ==
  /\ ComparedSpecifiers
  /\ input.specA = "workspace:^" /\ input.specB = "^1.2.3"
  /\ output.result.relation = "incompatible-types"

\* the specifier is ^M.m.p alone
SimpleCaret(spec) ==
  SpecSyntax(spec).op = "^" /\ Len(SemverRange(spec).sets) = 1

\* the least version of a range of one comparator set
LeastOf(spec) == SemverRange(spec).sets[1].lo

\* C14: for two specifiers that both begin with '^' and whose normalized ranges
\* differ, the result is {equivalent: true, relation: same-major-caret} exactly
\* when their minimum satisfying versions have the same major; two simple
\* carets ^M.m.p of different majors are not equivalent, relation disjoint.
C14_CaretSameMajor ==
  LET a == input.specA
      b == input.specB
  IN (/\ ComparedSpecifiers
      /\ SpecSyntax(a).op = "^" /\ SpecSyntax(b).op = "^"
      /\ SemverRange(a) # SemverRange(b))
     => /\ (output.result = Comparison(TRUE, "same-major-caret"))
             <=> (extractMajorMinor(a).major = extractMajorMinor(b).major)
        /\ (SimpleCaret(a) /\ SimpleCaret(b) /\ LeastOf(a)[1] # LeastOf(b)[1])
             => output.result = Comparison(FALSE, "disjoint")

\* the higher caret on the left, the lower on the right, same major
C14_Witness ==
  /\ ComparedSpecifiers
  /\ input.specA = "^1.5.0" /\ input.specB = "^1.0.0"
  /\ output.result = Comparison(TRUE, "same-major-caret")


----------------------------------------------------------------------------
(* Properties of comparisonToSemanticChange and compareDependencies *)

ConvertedComparison == output # None /\ output.fn = "comparisonToSemanticChange"
ComparedDependencies == output # None /\ output.fn = "compareDependencies"

\* the dependency maps that compareDependencies compares under the options
ComparedClasses ==
  {"dependencies", "peerDependencies"}
  \cup (IF input.options.includeOptionalDeps # Bool(FALSE)
        THEN {"optionalDependencies"} ELSE {})

DepsOf(pkg, depType) == Pairs(Field(pkg, depType))
NamesOf(pairs) == {pairs[i].k : i \in 1..Len(pairs)}

\* a change of this action is reported for the name in the class
Reported(changes, depType, name, action) ==
  \E i \in 1..Len(changes) :
    /\ changes[i].type = depType
    /\ changes[i].name = name
    /\ changes[i].action = action

\* some name of a compared class has a range in the local manifest wider than
\* in the registry manifest
SomeRangeWidened ==
  \E depType \in ComparedClasses :
    \E name \in NamesOf(DepsOf(input.local, depType))
                \cap NamesOf(DepsOf(input.registry, depType)) :
      compareVersionSpecifiers(ValueOf(DepsOf(input.registry, depType), name).s,
                               ValueOf(DepsOf(input.local, depType), name).s)
        .relation = "widened"

\* C15: comparisonToSemanticChange maps identical to none, any other
\* equivalent relation to equivalent, narrowed to equivalent when
\* treatNarrowingAsEquivalent is true or unset and to narrowed when it is false,
\* widened to widened under every option value, and every other relation to
\* incompatible; a widened range in a compared dependency map makes
\* compareDependencies report hasChanges = true.
C15_WidenedNeverDowngraded ==
  /\ ConvertedComparison =>
       output.result =
         (IF input.comparison.relation = "identical" THEN "none"
          ELSE IF input.comparison.relation \in EquivalentRelations
               THEN "equivalent"
          ELSE IF input.comparison.relation = "narrowed"
               THEN (IF input.treatNarrowingAsEquivalent \in {None, Bool(TRUE)}
                     THEN "equivalent" ELSE "narrowed")
          ELSE IF input.comparison.relation = "widened" THEN "widened"
          ELSE "incompatible")
  /\ (ComparedDependencies /\ SomeRangeWidened) => output.result.hasChanges

\* a widened comparison converted while narrowing is treated as equivalent
C15_Witness ==
  /\ ConvertedComparison
  /\ input.comparison = Comparison(FALSE, "widened")
  /\ input.treatNarrowingAsEquivalent = Bool(TRUE)
  /\ output.result = "widened"

\* C16: for each of dependencies, peerDependencies and optionalDependencies (when
\* compared), a name is reported 'added' exactly when it is present in the local
\* map and absent from the registry map, 'removed' exactly when it is present in
\* the registry map and absent from the local map; both carry semanticChange
\* incompatible.
C16_AddedRemovedByPresence ==
  ComparedDependencies =>
    \A depType \in ComparedClasses :
      LET localNames == NamesOf(DepsOf(input.local, depType))
          registryNames == NamesOf(DepsOf(input.registry, depType))
          changes == output.result.changes
      IN /\ \A name \in localNames \cup registryNames :
              /\ Reported(changes, depType, name, "added")
                   <=> (name \in localNames /\ name \notin registryNames)
              /\ Reported(changes, depType, name, "removed")
                   <=> (name \in registryNames /\ name \notin localNames)
         /\ \A i \in 1..Len(changes) :
              (changes[i].type = depType
               /\ changes[i].action \in {"added", "removed"})
                => changes[i].semanticChange = "incompatible"

\* C17: a name present in both maps is reported 'changed' exactly when its two
\* specifier strings differ and is not reported at all when they are the same
\* string; comparing identical manifests yields no changes and hasChanges false.
C17_ChangedByLiteralDifference ==
  ComparedDependencies =>
    /\ \A depType \in ComparedClasses :
         \A name \in NamesOf(DepsOf(input.local, depType))
                     \cap NamesOf(DepsOf(input.registry, depType)) :
           LET localSpec == ValueOf(DepsOf(input.local, depType), name)
               registrySpec == ValueOf(DepsOf(input.registry, depType), name)
               changes == output.result.changes
           IN /\ Reported(changes, depType, name, "changed")
                   <=> (localSpec # registrySpec)
              /\ localSpec = registrySpec =>
                   ~\E i \in 1..Len(changes) :
                      changes[i].type = depType /\ changes[i].name = name
    /\ input.local = input.registry =>
         (output.result.changes = <<>> /\ ~output.result.hasChanges)

\* the names of an array field, none when the manifest does not have it
ArrayNames(value) ==
  IF value.t = "array" THEN {value.a[i].s : i \in 1..Len(value.a)} ELSE {}

\* the names a manifest lists under either spelling
MergedBundled(pkg) ==
  ArrayNames(Field(pkg, "bundledDependencies"))
  \cup ArrayNames(Field(pkg, "bundleDependencies"))

\* the names a manifest bundles: those of bundledDependencies when the manifest
\* has that field, otherwise those of bundleDependencies
BundledNames(pkg) ==
  IF "bundledDependencies" \in DOMAIN pkg
  THEN ArrayNames(Field(pkg, "bundledDependencies"))
  ELSE ArrayNames(Field(pkg, "bundleDependencies"))

\* the bundled changes reported are exactly the differences of the two sets
BundledChangesAre(localSet, registrySet) ==
  LET changes == output.result.changes
  IN /\ \A name \in localSet \cup registrySet :
          /\ Reported(changes, "bundledDependencies", name, "added")
               <=> (name \in localSet /\ name \notin registrySet)
          /\ Reported(changes, "bundledDependencies", name, "removed")
               <=> (name \in registrySet /\ name \notin localSet)
     /\ \A i \in 1..Len(changes) :
          changes[i].type = "bundledDependencies" =>
            /\ changes[i].name \in localSet \cup registrySet
            /\ changes[i].semanticChange = "incompatible"

\* C18 as stated: the bundled names of a manifest are the union of its
\* bundledDependencies and bundleDependencies, and added/removed are the
\* differences of the two unions.
C18_BundledSpellingsMerged ==
  ComparedDependencies =>
    BundledChangesAre(MergedBundled(input.local), MergedBundled(input.registry))

\* C18: the bundled names of a manifest are those of bundledDependencies when it
\* has that field and those of bundleDependencies otherwise; a name is reported
\* added (removed) with semanticChange incompatible exactly when it is in the
\* local (registry) set and not in the other, so the same names under
\* different spellings produce no bundled change.
C18_BundledSpellingsAlternative ==
  ComparedDependencies =>
    BundledChangesAre(BundledNames(input.local), BundledNames(input.registry))

\* the same name under bundleDependencies locally and bundledDependencies in the
\* registry: nothing is reported
C18_Witness ==
  /\ ComparedDependencies
  /\ input.local = With(LibraryManifest, "bundleDependencies", Arr(<<Str("a")>>))
  /\ input.registry =
       With(LibraryManifest, "bundledDependencies", Arr(<<Str("a")>>))
  /\ output.result.changes = <<>>


----------------------------------------------------------------------------
(* Properties of comparePackageJson *)

ComparedManifests == output # None /\ output.fn = "comparePackageJson"

\* a field change is reported for the field
FieldReported(field) ==
  \E i \in 1..Len(output.result.fieldChanges) :
    output.result.fieldChanges[i].field = field

\* the two manifests differ, and only in fields of the set
DiffersOnlyIn(fields) ==
  /\ input.local # input.registry
  /\ \A f \in (DOMAIN input.local \cup DOMAIN input.registry) \ fields :
       Field(input.local, f) = Field(input.registry, f)

\* the never-significant fields the caller has made significant
AddedBack ==
  {f \in NEVER_SIGNIFICANT_FIELDS :
     /\ InSeq(input.options.additionalSignificantFields, f)
     /\ ~InSeq(input.options.ignoreFields, f)}

\* C19 as stated: a never-significant field never produces a field change and
\* never sets hasSignificantChanges, whatever additionalSignificantFields and
\* ignoreFields are.
C19_NeverSignificantAlwaysExcluded ==
  ComparedManifests =>
    /\ \A f \in NEVER_SIGNIFICANT_FIELDS : ~FieldReported(f)
    /\ DiffersOnlyIn(NEVER_SIGNIFICANT_FIELDS) =>
         ~output.result.hasSignificantChanges

\* C19: a never-significant field produces a field change exactly when the
\* caller lists it in additionalSignificantFields, does not list it in
\* ignoreFields, and its two values differ; manifests that differ only in
\* never-significant fields not so listed have no field change and
\* hasSignificantChanges false.
C19_NeverSignificantUnlessAdded ==
  ComparedManifests =>
    /\ \A f \in NEVER_SIGNIFICANT_FIELDS :
         FieldReported(f)
           <=> (f \in AddedBack /\ Field(input.local, f) # Field(input.registry, f))
    /\ DiffersOnlyIn(NEVER_SIGNIFICANT_FIELDS \ AddedBack) =>
         /\ output.result.fieldChanges = <<>>
         /\ ~output.result.hasSignificantChanges

\* the description differs and the caller has listed description as significant
C19_Witness ==
  /\ ComparedManifests
  /\ DiffersOnlyIn({"description"})
  /\ input.options.additionalSignificantFields = <<"description">>
  /\ input.options.ignoreFields = <<>>
  /\ FieldReported("description")
  /\ output.result.hasSignificantChanges

\* C20 as stated: when no field change is reported, hasSignificantChanges is
\* true if and only if the returned dependencyChanges list is non-empty.
C20_SignificantIffAnyDependencyChange ==
  (ComparedManifests /\ output.result.fieldChanges = <<>>) =>
    (output.result.hasSignificantChanges
       <=> Len(output.result.dependencyChanges) > 0)

\* C20: when no field change is reported, hasSignificantChanges is true if and
\* only if the returned dependencyChanges list holds a change whose
\* semanticChange is neither none nor equivalent; the list also holds the
\* equivalent changes.
C20_SignificantIffSignificantDependencyChange ==
  (ComparedManifests /\ output.result.fieldChanges = <<>>) =>
    (output.result.hasSignificantChanges
       <=> \E i \in 1..Len(output.result.dependencyChanges) :
             output.result.dependencyChanges[i].semanticChange
               \notin {"none", "equivalent"})

\* a caret range lowered within its major: the change is listed and is not
\* significant
C20_Witness ==
  /\ ComparedManifests
  /\ input.registry = With(LibraryManifest, "dependencies", Dep("lodash", "^4.17.21"))
  /\ input.local = With(LibraryManifest, "dependencies", Dep("lodash", "^4.17.0"))
  /\ output.result.fieldChanges = <<>>
  /\ Len(output.result.dependencyChanges) = 1
  /\ output.result.dependencyChanges[1].semanticChange = "equivalent"
  /\ ~output.result.hasSignificantChanges


----------------------------------------------------------------------------
(* Properties of comparePackageFiles *)

\* C21: the manifest-only flag of the file comparison is true if and only if at
\* least one change is reported and every reported change's path is the
\* manifest ('package/package.json' or a path ending in '/package.json'); it is
\* never true together with identical, and identical is true iff no change is
\* reported.
C21_ManifestOnlyFlag ==
  fileComparison # None =>
    /\ fileComparison.packageJsonOnly
         <=> /\ Len(fileComparison.fileChanges) > 0
             /\ \A i \in 1..Len(fileComparison.fileChanges) :
                  IsManifestPath(fileComparison.fileChanges[i].path)
    /\ ~(fileComparison.packageJsonOnly /\ fileComparison.identical)
    /\ fileComparison.identical <=> Len(fileComparison.fileChanges) = 0


----------------------------------------------------------------------------
(* Properties of the bin field in comparePackageJson *)

\* what a manifest's bin installs: command name -> path, the shorthand string
\* standing for the unscoped package name
Commands(pkg) ==
  IF "bin" \notin DOMAIN pkg THEN {}
  ELSE IF pkg.bin.t = "string" THEN {<<pkg.name.s.base, pkg.bin.s>>}
  ELSE {<<pkg.bin.o[i].k, pkg.bin.o[i].v.s>> : i \in 1..Len(pkg.bin.o)}

\* C22: a bin given as a shorthand string is normalized to {<unscoped package
\* name>: <path>} before comparison: a bin field change is reported exactly
\* when the two manifests' bins differ after normalization, and it is critical.
C22_BinShorthandNormalized ==
  ComparedManifests =>
    /\ FieldReported("bin") <=> Commands(input.local) # Commands(input.registry)
    /\ \A i \in 1..Len(output.result.fieldChanges) :
         output.result.fieldChanges[i].field = "bin"
           => output.result.fieldChanges[i].significance = "critical"

\* the shorthand string of a scoped package against the object form
C22_Witness ==
  /\ ComparedManifests
  /\ input.local.name = Str(PkgName("scope", "p"))
  /\ input.registry.name = Str(PkgName("scope", "p"))
  /\ Field(input.local, "bin") = Str("./cli.js")
  /\ Field(input.registry, "bin") = Dep("p", "./cli.js")
  /\ ~FieldReported("bin")


----------------------------------------------------------------------------
(* Properties of the command line program *)

\* the program has exited after running the check
CheckExited == output # None /\ ~input.help /\ ~input.version

\* needsPublish resolved with a result
Resolved == calls # <<>> /\ calls[1].error = None
\* needsPublish rejected
Rejected == calls = <<>> \/ calls[1].error # None

\* an operation of the check failed: the local package.json could not be read,
\* the registry or the packing rejected (E404 is the signal of a first
\* publish), or an error was delivered
ErrorOccurred ==
  \/ failure # None /\ failure.op \in {"readFileSync", "pack"}
  \/ failure # None /\ failure.op \in {"packument", "tarball"}
       /\ failure.code # "E404"
  \/ calls # <<>> /\ calls[1].error # None

\* with --json an error is printed on stdout as a JSON object with error = true
ErrorPrinted ==
  IF input.json
  THEN /\ output.stdout # None
       /\ output.stdout.format = "json"
       /\ output.stdout.value.error = TRUE
  ELSE output.stdout = None /\ output.stderr # None

\* C23 as stated: exit code 0 exactly when the package does not need
\* publishing, 1 exactly when it needs publishing, and 2 whenever an error
\* occurred during the check; with --json the error is a JSON object with
\* error = true.
C23_ExitTwoOnAnyError ==
  CheckExited =>
    /\ output.exit = 0 <=> (Resolved /\ ~calls[1].result.needsPublish)
    /\ output.exit = 1 <=> (Resolved /\ calls[1].result.needsPublish)
    /\ ErrorOccurred => (output.exit = 2 /\ ErrorPrinted)

\* C23: after a check, the exit code is 0 exactly when needsPublish resolved
\* with needsPublish = false, 1 exactly when it resolved with needsPublish =
\* true, and 2 exactly when it rejected, which happens when the local
\* package.json cannot be read or the manifest comparison fails to read a
\* package.json from an archive; a rejection is printed as a JSON object with
\* error = true under --json.  A failure of the registry or of packing resolves
\* with needsPublish = true and exits with 1.  --help and --version exit with 0
\* without running the check.
C23_ExitCodesFollowTheSettlement ==
  /\ CheckExited =>
       /\ output.exit = 0 <=> (Resolved /\ ~calls[1].result.needsPublish)
       /\ output.exit = 1 <=> (Resolved /\ calls[1].result.needsPublish)
       /\ output.exit = 2 <=> Rejected
       /\ Rejected <=> \/ input.manifest = "missing"
                       \/ RanAny({"manifestComparison"})
                            /\ (NoAcceptedEntry(localTarball)
                                \/ NoAcceptedEntry(registryTarball)
                                \/ ~SelectsRootManifest(localTarball)
                                \/ ~SelectsRootManifest(registryTarball))
       /\ Rejected => ErrorPrinted
       /\ (failure # None /\ failure.op \in {"packument", "tarball", "pack"})
            => output.exit = 1
  /\ (output # None /\ (input.help \/ input.version)) =>
       (output.exit = 0 /\ steps = <<>> /\ calls = <<>>)

\* no package.json in the working directory, --json given
C23_Witness ==
  /\ CheckExited
  /\ input.manifest = "missing"
  /\ input.json
  /\ output.exit = 2
  /\ output.stdout.value.error = TRUE


----------------------------------------------------------------------------
(* Properties of the relation between two semver ranges *)

\* versions around every bound of the specifiers compared: <<M, m, p, r>> is
\* the release M.m.p when r = 1 and a prerelease of M.m.p when r = 0
Points ==
  {<<M, m, p, r>> : M \in 0..6, m \in {0, 1, 2, 3, 5, 6, 17, 18, 19},
                    p \in {0, 1, 2, 3, 4, 5, 6, 21, 22}, r \in {0, 1}}

\* the version satisfies the comparator set, prereleases included
PointSatisfies(pt, set) ==
  LET v == <<pt[1], pt[2], pt[3]>>
      hi == <<set.hi[1], set.hi[2], set.hi[3]>>
  IN IF set.kind = "any" THEN TRUE
     ELSE IF set.kind = "exact" THEN v = set.lo /\ pt[4] = 1
     ELSE /\ VLt(set.lo, v) \/ (v = set.lo /\ pt[4] = 1)
          /\ set.inf \/ VLt(v, hi) \/ (v = hi /\ set.hi[4] = 1)

\* the versions that satisfy the range of the specifier
VersionsOf(spec) ==
  {pt \in Points :
     \E i \in 1..Len(SemverRange(spec).sets) :
       PointSatisfies(pt, SemverRange(spec).sets[i])}

\* the relation of the new range to the old one by their sets of versions
RelationOf(old, new) ==
  IF old = new THEN "semantically-equal"
  ELSE IF new \subseteq old THEN "narrowed"
  ELSE IF old \subseteq new THEN "widened"
  ELSE IF old \cap new # {} THEN "partially-overlapping"
  ELSE "disjoint"

Swapped(relation) ==
  IF relation = "narrowed" THEN "widened"
  ELSE IF relation = "widened" THEN "narrowed"
  ELSE relation

\* both specifiers start with '^' and have the same least major, or both start
\* with '~' and have the same least major and minor
SameFamily(a, b) ==
  \/ /\ SpecSyntax(a).op = "^" /\ SpecSyntax(b).op = "^"
     /\ extractMajorMinor(a).major = extractMajorMinor(b).major
  \/ /\ SpecSyntax(a).op = "~" /\ SpecSyntax(b).op = "~"
     /\ extractMajorMinor(a) = extractMajorMinor(b)

\* two semver-class specifiers of different normalized forms outside the
\* same-family rules have been compared
ComparedBySubset ==
  /\ ComparedSpecifiers
  /\ parseVersionSpecifier(input.specA).type \in SemverTypes
  /\ parseVersionSpecifier(input.specB).type \in SemverTypes
  /\ SemverRange(input.specA) # SemverRange(input.specB)
  /\ ~SameFamily(input.specA, input.specB)

\* C24 as stated: for two semver-class specifiers with different normalized
\* forms that match neither same-family rule, the relation is
\* semantically-equal when each range is a subset of the other, narrowed when
\* only new is a subset of old, widened when only old is a subset of new,
\* otherwise partially-overlapping when the ranges intersect and disjoint when
\* they do not; swapping the arguments swaps narrowed and widened and leaves
\* the other relations.
C24_RelationByVersionSets ==
  ComparedBySubset =>
    /\ output.result.relation
         = RelationOf(VersionsOf(input.specA), VersionsOf(input.specB))
    /\ compareVersionSpecifiers(input.specB, input.specA).relation
         = Swapped(output.result.relation)

\* C24: the relation follows the answers of semver.subset and of
\* Range.intersects: semantically-equal when semver.subset holds both ways,
\* narrowed when only for (new, old), widened when only for (old, new),
\* otherwise partially-overlapping or disjoint by intersects.  The answers are
\* sound for the sets of versions: semantically-equal ranges admit the same
\* versions, a narrowed range admits only versions of the old one, a widened
\* range admits all versions of the old one, partially-overlapping ranges
\* share a version and disjoint ranges share none.  Swapping the arguments
\* swaps narrowed and widened and leaves the other relations.
C24_RelationBySemverSubset ==
  ComparedBySubset =>
    LET rangeA == SemverRange(input.specA)
        rangeB == SemverRange(input.specB)
        old == VersionsOf(input.specA)
        new == VersionsOf(input.specB)
        relation == output.result.relation
    IN /\ relation =
            (IF SemverSubset(rangeA, rangeB) /\ SemverSubset(rangeB, rangeA)
             THEN "semantically-equal"
             ELSE IF SemverSubset(rangeB, rangeA) THEN "narrowed"
             ELSE IF SemverSubset(rangeA, rangeB) THEN "widened"
             ELSE IF SemverIntersects(rangeA, rangeB) THEN "partially-overlapping"
             ELSE "disjoint")
       /\ relation = "semantically-equal" => old = new
       /\ relation = "narrowed" => new \subseteq old
       /\ relation = "widened" => old \subseteq new
       /\ relation = "partially-overlapping" => old \cap new # {}
       /\ relation = "disjoint" => old \cap new = {}
       /\ compareVersionSpecifiers(input.specB, input.specA).relation
            = Swapped(relation)

\* the exact version 0.0.1 replaced by ^0.0.1: both admit 0.0.1 only, and
\* semver.subset does not find the caret range inside the exact version
C24_Witness ==
  /\ ComparedBySubset
  /\ input.specA = "0.0.1" /\ input.specB = "^0.0.1"
  /\ VersionsOf(input.specA) = VersionsOf(input.specB)
  /\ output.result = Comparison(FALSE, "widened")


----------------------------------------------------------------------------
(* Properties of workspace and alias specifiers *)

IsWorkspace(spec) == SpecSyntax(spec).workspace

\* the text after 'workspace:', '*' when there is none; undefined for a
\* specifier of another kind
PayloadOf(spec) ==
  IF ~IsWorkspace(spec) THEN None
  ELSE IF SpecSyntax(spec).workspaceRange = "" THEN Str("*")
  ELSE Str(SpecSyntax(spec).workspaceRange)

\* C25 as stated: when either specifier is a workspace specifier the comparison
\* is decided by string equality of the workspace payloads only and the
\* relation is identical or disjoint.
C25_WorkspaceIdenticalOrDisjoint ==
  (ComparedSpecifiers /\ (IsWorkspace(input.specA) \/ IsWorkspace(input.specB)))
    => output.result =
         (IF PayloadOf(input.specA) = PayloadOf(input.specB)
          THEN Comparison(TRUE, "identical")
          ELSE Comparison(FALSE, "disjoint"))

\* C25: when both specifiers are workspace specifiers the comparison is decided
\* by string equality of the payloads (an empty payload standing for '*'),
\* identical or disjoint; when only one of them is a workspace specifier the
\* result is not equivalent, relation incompatible-types.
C25_WorkspaceByPayload ==
  (ComparedSpecifiers /\ (IsWorkspace(input.specA) \/ IsWorkspace(input.specB)))
    => output.result =
         (IF ~(IsWorkspace(input.specA) /\ IsWorkspace(input.specB))
          THEN Comparison(FALSE, "incompatible-types")
          ELSE IF PayloadOf(input.specA) = PayloadOf(input.specB)
               THEN Comparison(TRUE, "identical")
          ELSE Comparison(FALSE, "disjoint"))

\* 'workspace:' against 'workspace:*': different texts, the same payload
C25_Witness ==
  /\ ComparedSpecifiers
  /\ input.specA = "workspace:" /\ input.specB = "workspace:*"
  /\ output.result = Comparison(TRUE, "identical")


----------------------------------------------------------------------------
(* Properties of the callback interface *)

\* C26: a call of needsPublishCb invokes the callback exactly once, with an
\* error or with a result and never with both, on every path; a callback that
\* throws is not invoked a second time.
C26_CallbackExactlyOnce ==
  api = "callback" =>
    /\ Len(calls) <= 1
    /\ Done => Len(calls) = 1
    /\ \A i \in 1..Len(calls) : (calls[i].error = None) # (calls[i].result = None)


----------------------------------------------------------------------------
(* Properties of equivalent verdicts *)

\* C27: two semver-class specifiers that compareVersionSpecifiers calls
\* equivalent, the same-major-caret and same-minor-tilde verdicts included,
\* have at least one version in common.
C27_EquivalentRangesOverlap ==
  (/\ ComparedSpecifiers
   /\ parseVersionSpecifier(input.specA).type \in SemverTypes
   /\ parseVersionSpecifier(input.specB).type \in SemverTypes
   /\ output.result.equivalent)
    => VersionsOf(input.specA) \cap VersionsOf(input.specB) # {}


\* the specifier is an alias, and the package it names
IsAlias(spec) == ~IsWorkspace(spec) /\ SpecSyntax(spec).npa = "alias"
AliasNameOf(spec) == SpecSyntax(spec).aliasName

\* the dependency of the name is an alias in both manifests, for different
\* packages
SwitchedAlias(depType, name) ==
  LET old == ValueOf(DepsOf(input.registry, depType), name)
      new == ValueOf(DepsOf(input.local, depType), name)
  IN /\ old # None /\ new # None
     /\ IsAlias(old.s) /\ IsAlias(new.s)
     /\ AliasNameOf(old.s) # AliasNameOf(new.s)

\* C28: two alias specifiers that name different packages are never equivalent,
\* an alias specifier is never identical to a specifier that is not an alias,
\* and a dependency switched to an alias of a different package is a
\* significant dependency change.
C28_AliasTargetsDistinguished ==
  /\ ComparedSpecifiers =>
       /\ (/\ IsAlias(input.specA) /\ IsAlias(input.specB)
           /\ AliasNameOf(input.specA) # AliasNameOf(input.specB))
            => ~output.result.equivalent
       /\ (IsAlias(input.specA) # IsAlias(input.specB))
            => output.result.relation # "identical"
  /\ ComparedDependencies =>
       \A depType \in ComparedClasses :
         \A name \in NamesOf(DepsOf(input.local, depType)) :
           SwitchedAlias(depType, name) => output.result.hasChanges


----------------------------------------------------------------------------
(* Properties of packages with a nested package.json *)

\* the file comparison reports a change to the nested package.json
NestedManifestChanged ==
  /\ fileComparison # None
  /\ \E i \in 1..Len(fileComparison.fileChanges) :
       fileComparison.fileChanges[i].path = NestedManifestPath

\* C29: when the two archives, each with a root manifest, differ in a
\* package.json in a subdirectory of the package, the verdict is needsPublish=true; the change is never decided by
\* the manifest comparison and never ends in a no-publish verdict.
C29_NestedManifestChangeNeedsPublish ==
  (/\ Done /\ NestedManifestChanged
   /\ HasRootManifest(localTarball) /\ HasRootManifest(registryTarball)) =>
    /\ IsVerdict(Outcome)
    /\ Outcome.result.needsPublish = TRUE
    /\ ~RanAny({"manifestComparison"})


----------------------------------------------------------------------------
(* Properties of the significance of field changes *)

\* C30: every field change that comparePackageJson returns has significance
\* critical or significant, whatever the additional and ignored fields are;
\* so without significant changes no field change is returned, and the
\* no-publish result built from such a comparison has an empty changes list.
C30_FieldChangesNeverInformational ==
  ComparedManifests =>
    /\ \A i \in 1..Len(output.result.fieldChanges) :
         output.result.fieldChanges[i].significance \in {"critical", "significant"}
    /\ ~output.result.hasSignificantChanges => output.result.fieldChanges = <<>>
    /\ ~ManifestVerdict(output.result).needsPublish
         => ManifestVerdict(output.result).changes = <<>>

\* a field the caller added to the significant ones differs
C30_Witness ==
  /\ ComparedManifests
  /\ input.options.additionalSignificantFields = <<"customField">>
  /\ input.options.ignoreFields = <<>>
  /\ input.local = With(LibraryManifest, "customField", Str("x"))
  /\ input.registry = LibraryManifest
  /\ Len(output.result.fieldChanges) = 1
  /\ output.result.fieldChanges[1].field = "customField"
  /\ output.result.fieldChanges[1].significance = "significant"

====
